---------------------------- MODULE Spec2Model ----------------------------
(***************************************************************************)
(* Model of the Box clean-up tools of AEADataEditor/clean-up-box:          *)
(*   clean_box_folders.py   (class BoxCleanup,  the cleanup workflow)      *)
(*   recover_box_files.py   (class BoxRecovery, the recovery workflow)     *)
(*                                                                         *)
(* Text (folder names, file names, extensions, logins) is a sequence of    *)
(* one-character strings, so that lower(), splitext(), the regular         *)
(* expression of the case pattern and substring tests are computed the way *)
(* the Python code computes them.                                          *)
(***************************************************************************)
EXTENDS Integers, Sequences, FiniteSets, TLC

(***************************************************************************)
(* Bounds of the model.                                                     *)
(***************************************************************************)
\* number of items the root folder listing holds at most
MaxRootItems == 3
\* number of remote calls that fail in one invocation at most
MaxFaults == 1

\* trashed items in the trash before the recovery runs
MaxTrashItems == 2

(***************************************************************************)
(* Text helpers.                                                            *)
(***************************************************************************)
UpperLetters ==
  <<"A","B","C","D","E","F","G","H","I","J","K","L","M",
    "N","O","P","Q","R","S","T","U","V","W","X","Y","Z">>

LowerLetters ==
  <<"a","b","c","d","e","f","g","h","i","j","k","l","m",
    "n","o","p","q","r","s","t","u","v","w","x","y","z">>

Digits == {"0","1","2","3","4","5","6","7","8","9"}

\* str.lower() on one character
LowerChar(c) ==
  IF \E i \in 1..Len(UpperLetters) : UpperLetters[i] = c
  THEN LowerLetters[CHOOSE i \in 1..Len(UpperLetters) : UpperLetters[i] = c]
  ELSE c

\* str.lower()
Lower(s) == [i \in 1..Len(s) |-> LowerChar(s[i])]

\* int() of a digit character
DigitValue(c) ==
  CASE c = "0" -> 0 [] c = "1" -> 1 [] c = "2" -> 2 [] c = "3" -> 3
    [] c = "4" -> 4 [] c = "5" -> 5 [] c = "6" -> 6 [] c = "7" -> 7
    [] c = "8" -> 8 [] c = "9" -> 9

RECURSIVE ToInt(_)
\* int() of a digit string
ToInt(s) ==
  IF s = <<>> THEN 0
  ELSE 10 * ToInt(SubSeq(s, 1, Len(s) - 1)) + DigitValue(s[Len(s)])

\* str.rfind(c) as a 1-based index, 0 when c does not occur
RFind(s, c) ==
  IF \E i \in 1..Len(s) : s[i] = c
  THEN CHOOSE i \in 1..Len(s) : s[i] = c /\ \A j \in (i+1)..Len(s) : s[j] # c
  ELSE 0

\* os.path.splitext(p)[1]: the text from the last dot on, unless that dot
\* sits before the last "/" or only dots precede it in the last component
SplitExt(p) ==
  LET sepIndex == RFind(p, "/")
      dotIndex == RFind(p, ".")
  IN  IF dotIndex > sepIndex
         /\ \E k \in (sepIndex + 1)..(dotIndex - 1) : p[k] # "."
      THEN SubSeq(p, dotIndex, Len(p))
      ELSE <<>>

(***************************************************************************)
(* clean_box_folders.py: configuration.                                     *)
(***************************************************************************)
DATA_FILE_EXTENSIONS ==
  { <<".","c","s","v">>, <<".","d","t","a">>, <<".","z","i","p">>, <<".","g","z">>,
    <<".","t","a","r">>, <<".","7","z">>, <<".","r","a","r">>,
    <<".","s","a","s","7","b","d","a","t">>, <<".","s","a","s","7","b","c","a","t">>,
    <<".","s","d","2">>, <<".","x","p","t">>,
    <<".","r","d","s">>, <<".","r","d","a","t","a">>, <<".","r","d","a">>,
    <<".","m","a","t">>,
    <<".","p","k","l">>, <<".","p","i","c","k","l","e">>,
    <<".","p","a","r","q","u","e","t">>, <<".","f","e","a","t","h","e","r">>,
    <<".","d","b">>, <<".","s","q","l","i","t","e">>, <<".","s","q","l">>,
    <<".","j","s","o","n">>, <<".","j","s","o","n","l">>, <<".","n","d","j","s","o","n">>,
    <<".","x","m","l">>,
    <<".","h","d","f","5">>, <<".","h","5">>,
    <<".","n","c">>, <<".","n","c","4">>,
    <<".","s","a","v">>, <<".","p","o","r">>,
    <<".","x","l","s","x">>, <<".","x","l","s">> }

DOCUMENT_EXTENSIONS ==
  { <<".","p","d","f">>, <<".","d","o","c","x">>, <<".","d","o","c">>,
    <<".","t","x","t">>, <<".","m","d">>, <<".","r","t","f">>,
    <<".","t","e","x">>, <<".","b","i","b">>, <<".","l","o","g">>, <<".","a","u","x">>,
    <<".","o","d","t">>, <<".","o","d","s">>,
    <<".","p","p","t","x">>, <<".","p","p","t">> }

\* the literal prefix of the case pattern, r'^aearep-(\d+)$'
CasePrefix == <<"a","e","a","r","e","p","-">>

\* a variant without the end anchor: a digit run, then anything
CasePatternMatch_NoEndAnchor(name) ==
  LET k == Len(CasePrefix)
      rest == SubSeq(name, k + 1, Len(name))
      run == { n \in 1..Len(rest) : \A i \in 1..n : rest[i] \in Digits }
  IN  IF Len(name) > k /\ Lower(SubSeq(name, 1, k)) = CasePrefix /\ run # {}
      THEN SubSeq(rest, 1, CHOOSE n \in run : \A m \in run : m <= n)
      ELSE <<>>

\* case_pattern.match(name) with re.IGNORECASE: the digits of group(1), or
\* <<>> when the name does not match.  "$" also matches before one trailing
\* newline, so that newline is dropped before the comparison.
CasePatternMatch(name) ==
  LET body == IF Len(name) > 0 /\ name[Len(name)] = "\n"
              THEN SubSeq(name, 1, Len(name) - 1) ELSE name
      k    == Len(CasePrefix)
      digs == SubSeq(body, k + 1, Len(body))
  IN  IF /\ Len(body) > k
         /\ Lower(SubSeq(body, 1, k)) = CasePrefix
         /\ \A i \in 1..Len(digs) : digs[i] \in Digits
      THEN digs
      ELSE <<>>

\* a variant that compares the extension as written
ClassifyName_CaseSensitive(name) ==
  LET ext == SplitExt(name)
  IN  IF ext \in DATA_FILE_EXTENSIONS THEN "data"
      ELSE IF ext \in DOCUMENT_EXTENSIONS THEN "document"
      ELSE "document"

\* the bucket of one file name (classify_files_recursive, the test on ext)
ClassifyName(name) ==
  LET ext == SplitExt(Lower(name))
  IN  IF ext \in DATA_FILE_EXTENSIONS THEN "data"
      ELSE IF ext \in DOCUMENT_EXTENSIONS THEN "document"
      ELSE "document"


(***************************************************************************)
(* The storage the two tools work on.  An item of a folder listing is a    *)
(* record (id, name, type, size); a folder's content is a sequence of      *)
(* items in listing order.                                                 *)
(***************************************************************************)
Item(id, name, type, size) == [id |-> id, name |-> name, type |-> type, size |-> size]

\* BOX_FOLDER_PRIVATE, the id of the root folder
ROOT == 1

\* no identifier (Python's None where an id is expected)
NoId == 0

\* the name of the archive folder
CompletedName == <<"1","C","o","m","p","l","e","t","e","d">>

\* the id the storage gives a '1Completed' folder it creates
CompletedId == 16

\* items a root folder listing is drawn from, in listing order
RootCatalog ==
  << Item(11, <<"a","e","a","r","e","p","-","1","2">>, "folder", 0),
     Item(12, <<"A","E","A","R","E","P","-","7">>, "folder", 0),
     Item(13, <<"a","e","a","r","e","p","-","1","2","a">>, "folder", 0),
     Item(14, <<"x","a","e","a","r","e","p","-","1","2">>, "folder", 0),
     Item(15, <<"a","e","a","r","e","p","-","3">>, "file", 3),
     Item(CompletedId, CompletedName, "folder", 0) >>

\* a case folder archived by an earlier run: same name as root item 11
ArchivedCase == Item(161, <<"a","e","a","r","e","p","-","1","2">>, "folder", 0)

\* every folder id of the storage
FolderIds == {ROOT, 11, 12, 13, 14, CompletedId, 122, 161, 555}

\* what the folders below the root hold before any run
InitialChildren(fid) ==
  CASE fid = 11  -> << Item(111, <<"a",".","c","s","v">>, "file", 2),
                       Item(112, <<"r",".","p","d","f">>, "file", 1) >>
    [] fid = 12  -> << Item(121, <<"B",".","D","T","A">>, "file", 4),
                       Item(122, <<"s","u","b">>, "folder", 0),
                       Item(123, <<"n","o","t","e","s">>, "file", 1) >>
    [] fid = 122 -> << Item(1221, <<"x",".","t","a","r",".","g","z">>, "file", 8),
                       Item(1222, <<".","c","s","v">>, "file", 1) >>
    [] fid = 13  -> << Item(131, <<"z",".","c","s","v">>, "file", 2) >>
    [] OTHER     -> << >>

\* the case numbers the readiness helper can be asked about
CaseNumbers == { <<"1","2">>, <<"7">> }

\* how one invocation of jira_purge_query.py ends
Verdicts == {"exit0", "exit1", "timeout", "error"}

\* answers typed at the confirmation prompt
Responses == { <<"y">>, <<"Y","E","S">>, <<"n">>, << >> }

\* the sub-sequences of seq holding at most n of its elements
SubListings(seq, n) ==
  { SelectSeq(seq, LAMBDA it : it.id \in ids) :
      ids \in { S \in SUBSET {seq[i].id : i \in 1..Len(seq)} : Cardinality(S) <= n } }

(***************************************************************************)
(* Python values, as read off a Jira issue: None, a str, a float with one  *)
(* decimal (whole + tenths / 10), an int.                                   *)
(***************************************************************************)
PyNone == [t |-> "none"]
PyStr(s) == [t |-> "str", s |-> s]
PyFloat(whole, tenths) == [t |-> "float", whole |-> whole, tenths |-> tenths]
PyInt(n) == [t |-> "int", n |-> n]

\* bool(value)
Truthy(v) ==
  CASE v.t = "none"  -> FALSE
    [] v.t = "str"   -> v.s # << >>
    [] v.t = "float" -> v.whole # 0 \/ v.tenths # 0
    [] v.t = "int"   -> v.n # 0

(***************************************************************************)
(* State.                                                                   *)
(***************************************************************************)
VARIABLES
  workflow,            \* "cleanup" (clean_box_folders.py) or "recovery"
  args,                \* the command line
  env,                 \* credentials, helper script, the helper's verdicts
  children,            \* storage: folder id -> its listing
  trash,               \* storage: the trashed items
  test_mode,           \* self.test_mode
  pc,                  \* where the invocation stands
  exit_code,           \* the process exit code, -1 while running
  stats,               \* self.stats
  case_folders,        \* run(): case_folders
  idx,                 \* run(): position of the for loop over case_folders
  completed_folder_id, \* run(): completed_folder_id
  data_files,          \* process_case_folder(): data_files
  document_files,      \* process_case_folder(): document_files
  del_idx,             \* delete_data_files(): position of the for loop
  deleted_count,       \* delete_data_files(): deleted_count
  deleted_bytes,       \* delete_data_files(): deleted_bytes
  events,              \* mutating storage calls issued and dry-run lines logged
  faults,              \* remote calls that failed in this invocation
  box_folder_id,       \* BoxRecovery.run(): box_folder_id
  box_folder_name,     \* BoxRecovery.run(): box_folder_name
  trashed_items,       \* BoxRecovery.run(): trashed_items
  filtered_items,      \* BoxRecovery.run(): filtered_items
  target_folder_id,    \* BoxRecovery.run(): target_folder_id
  returned,            \* what input(), or a function called on its own, returned
  dry_result           \* how the dry run ended, once the live run is started

vars == << workflow, args, env, children, trash, test_mode, pc, exit_code, stats,
           case_folders, idx, completed_folder_id, data_files, document_files,
           del_idx, deleted_count, deleted_bytes, events, faults, box_folder_id,
           box_folder_name, trashed_items, filtered_items, target_folder_id,
           returned, dry_result >>

\* BoxRecovery.__init__: self.stats
RecoveryStats0 == [ items_found |-> 0, items_restored |-> 0, errors |-> 0 ]

\* BoxCleanup.__init__: self.stats
CleanupStats0 ==
  [ folders_found |-> 0, folders_checked |-> 0, folders_ready |-> 0,
    folders_moved |-> 0, files_deleted |-> 0, bytes_deleted |-> 0, errors |-> 0 ]

\* the part of the state a constructor sets up
Constructed(tm) ==
  /\ test_mode = tm
  /\ pc = "start"
  /\ exit_code = -1
  /\ case_folders = << >>
  /\ idx = 0
  /\ completed_folder_id = NoId
  /\ data_files = << >>
  /\ document_files = << >>
  /\ del_idx = 0
  /\ deleted_count = 0
  /\ deleted_bytes = 0
  /\ events = << >>
  /\ faults = 0
  /\ box_folder_id = PyNone
  /\ box_folder_name = PyNone
  /\ trashed_items = << >>
  /\ filtered_items = << >>
  /\ target_folder_id = NoId
  /\ returned = PyNone

\* the case numbers of the case folders of a root listing
ListedCases(listing) ==
  { CasePatternMatch(listing[i].name) : i \in 1..Len(listing) } \ { << >> }

\* the storage before any run: a root listing and, when it has the archive
\* folder, what the archive holds
InitStorage ==
  /\ \E listing \in SubListings(RootCatalog, MaxRootItems) :
     \E archive \in { << >>, << ArchivedCase >> } :
       /\ archive # << >> => \E i \in 1..Len(listing) : listing[i].id = CompletedId
       /\ children = [ f \in FolderIds |->
                         IF f = ROOT THEN listing
                         ELSE IF f = CompletedId THEN archive
                         ELSE InitialChildren(f) ]
  /\ trash = << >>

\* python3 clean_box_folders.py --test [--case N] [--yes] [--skip-jira-check]
InitCleanup ==
  /\ workflow = "cleanup"
  /\ InitStorage
  /\ args \in [ specific_case : { << >>, <<"1","2">>, <<"7">> },
                auto_confirm : BOOLEAN,
                skip_jira : BOOLEAN ]
  /\ env \in [ creds_ok : BOOLEAN,
               helper_exists : BOOLEAN,
               verdict : [CaseNumbers -> Verdicts] ]
  \* inputs nothing reads are fixed, not enumerated
  /\ \A c \in CaseNumbers :
       (c \notin ListedCases(children[ROOT]) \/ args.skip_jira \/ ~env.helper_exists)
          => env.verdict[c] = "exit0"
  /\ ~env.creds_ok =>
       /\ env.helper_exists /\ ~args.skip_jira /\ ~args.auto_confirm
       /\ args.specific_case = << >> /\ children[ROOT] = << >>
  /\ (~env.helper_exists /\ ~args.skip_jira) =>
       /\ ~args.auto_confirm /\ args.specific_case = << >> /\ children[ROOT] = << >>
  /\ stats = CleanupStats0
  /\ Constructed(TRUE)
  /\ dry_result = [ended |-> FALSE]

(***************************************************************************)
(* Helpers of the cleanup workflow.                                         *)
(***************************************************************************)
\* a remote call may still fail in this invocation
FaultsLeft == faults < MaxFaults

\* an entry of events: a mutating storage call that was issued (mode "call",
\* with its result) or the line a dry run logs in its place (mode "dry")
Event(op, mode, target, case, result) ==
  [op |-> op, mode |-> mode, target |-> target, case |-> case, result |-> result]

\* sys.exit(code), or run() returning to main() (code 0)
Terminate(state, code) ==
  /\ pc' = state
  /\ exit_code' = code

\* find_case_folders, the loop over the listing: the folders whose name
\* matches the case pattern (and the --case filter), in listing order
MatchingFolders(items, specific_case) ==
  LET keep(it) ==
        /\ it.type = "folder"
        /\ CasePatternMatch(it.name) # << >>
        /\ ~(specific_case # << >> /\ CasePatternMatch(it.name) # specific_case)
      kept == SelectSeq(items, keep)
  IN  [ i \in 1..Len(kept) |->
          [ id |-> kept[i].id, name |-> kept[i].name,
            case_number |-> CasePatternMatch(kept[i].name) ] ]

RECURSIVE SortByCase(_)
\* a variant that leaves the folders in listing order
SortByCase_ListingOrder(s) == s

\* case_folders.sort(key=lambda x: int(x[2])): a stable sort
SortByCase(s) ==
  IF s = << >> THEN << >>
  ELSE LET x == s[Len(s)]
           sorted == SortByCase(SubSeq(s, 1, Len(s) - 1))
           k == Cardinality({ i \in 1..Len(sorted) :
                                ToInt(sorted[i].case_number) <= ToInt(x.case_number) })
       IN  SubSeq(sorted, 1, k) \o << x >> \o SubSeq(sorted, k + 1, Len(sorted))

\* a variant that takes any exit code of the helper for ready
IsReady_AnyExit(case_number) ==
  IF args.skip_jira THEN TRUE
  ELSE env.verdict[case_number] \in {"exit0", "exit1"}

\* check_jira_purge_status: is_ready
IsReady(case_number) ==
  IF args.skip_jira THEN TRUE
  ELSE env.verdict[case_number] = "exit0"

RECURSIVE WalkItems(_, _, _, _, _)
\* a variant that takes a helper that ran out of time for ready
CheckJiraPurgeStatus_TimeoutReady(case_number) ==
  IF args.skip_jira
  THEN [ended |-> "return", is_ready |-> TRUE, helper_called |-> FALSE]
  ELSE IF ~env.helper_exists
  THEN [ended |-> "exit", is_ready |-> FALSE, helper_called |-> FALSE]
  ELSE [ended |-> "return",
        is_ready |-> env.verdict[case_number] \in {"exit0", "timeout"},
        helper_called |-> TRUE]

\* check_jira_purge_status on its own: how the call ends (it returns, or
\* exits because the helper script is missing), the is_ready it returns and
\* whether subprocess.run was called
CheckJiraPurgeStatus(case_number) ==
  IF args.skip_jira
  THEN [ended |-> "return", is_ready |-> TRUE, helper_called |-> FALSE]
  ELSE IF ~env.helper_exists
  THEN [ended |-> "exit", is_ready |-> FALSE, helper_called |-> FALSE]
  ELSE [ended |-> "return",
        is_ready |-> env.verdict[case_number] = "exit0",
        helper_called |-> TRUE]

RECURSIVE WalkItems_StopsAtFailure(_, _, _, _, _)
\* a variant in which a folder that cannot be listed ends the walk of the
\* folder that holds it
WalkItems_StopsAtFailure(ch, items, i, prefix, bad) ==
  IF i > Len(items) THEN << >>
  ELSE LET item == items[i]
           item_path == prefix \o <<"/">> \o item.name
       IN  IF item.type = "file"
           THEN << [ id |-> item.id, name |-> item.name,
                     size |-> item.size, path |-> item_path ] >>
                \o WalkItems_StopsAtFailure(ch, items, i + 1, prefix, bad)
           ELSE IF item.id \in bad THEN << >>
           ELSE WalkItems_StopsAtFailure(ch, ch[item.id], 1, item_path, bad)
                \o WalkItems_StopsAtFailure(ch, items, i + 1, prefix, bad)

\* classify_files_recursive / recurse_folder: the file_info of every file
\* below a folder, in the order the walk meets them.  ch is the storage,
\* items the listing of the current folder, from its i-th item on; a folder
\* in bad raises BoxAPIException when listed and contributes nothing.
WalkItems(ch, items, i, prefix, bad) ==
  IF i > Len(items) THEN << >>
  ELSE LET item == items[i]
           item_path == prefix \o <<"/">> \o item.name
           here ==
             IF item.type = "file"
             THEN << [ id |-> item.id, name |-> item.name,
                       size |-> item.size, path |-> item_path ] >>
             ELSE IF item.type = "folder" /\ item.id \notin bad
             THEN WalkItems(ch, ch[item.id], 1, item_path, bad)
             ELSE << >>
       IN  here \o WalkItems(ch, items, i + 1, prefix, bad)

\* the walk of one case folder
Walk(ch, folder_id, bad) ==
  IF folder_id \in bad THEN << >>
  ELSE WalkItems(ch, ch[folder_id], 1, << >>, bad)

RECURSIVE FoldersBelow(_, _)
\* the folder and every folder below it
FoldersBelow(ch, folder_id) ==
  {folder_id} \cup
  UNION { FoldersBelow(ch, ch[folder_id][i].id) :
            i \in { j \in 1..Len(ch[folder_id]) : ch[folder_id][j].type = "folder" } }

\* classify_files_recursive: the data_files of a walk
DataFilesOf(walk) == SelectSeq(walk, LAMBDA f : ClassifyName(f.name) = "data")

\* classify_files_recursive: the document_files of a walk
DocumentFilesOf(walk) == SelectSeq(walk, LAMBDA f : ClassifyName(f.name) # "data")

\* a listing without the item of that id
RemoveItem(seq, id) == SelectSeq(seq, LAMBDA it : it.id # id)

\* the item of that id in a listing
ItemOf(seq, id) == seq[CHOOSE i \in 1..Len(seq) : seq[i].id = id]

\* the storage refuses a move or a restore into dest when dest holds an item
\* of that name (item_name_in_use)
NameInUse(ch, dest, name) ==
  \E i \in 1..Len(ch[dest]) : Lower(ch[dest][i].name) = Lower(name)

\* folder.move(completed_folder): the storage after a successful move
MovedStorage(ch, folder_id, dest) ==
  [ ch EXCEPT ![ROOT] = RemoveItem(@, folder_id),
              ![dest] = Append(@, ItemOf(ch[ROOT], folder_id)) ]

\* a variant that empties the folder of the deleted file
DeletedStorage_WholeFolder(ch, file_id) ==
  [ f \in FolderIds |->
      IF \E i \in 1..Len(ch[f]) : ch[f][i].id = file_id THEN << >> ELSE ch[f] ]

\* file_obj.delete(): the storage after a successful delete
DeletedStorage(ch, file_id) == [ f \in FolderIds |-> RemoveItem(ch[f], file_id) ]

\* a variant in which the loop ends after the current case folder
NextCase_LeavesTheLoop ==
  /\ idx' = idx + 1
  /\ pc' = "summary"

\* the for loop of run() goes to the next case folder, or ends
NextCase ==
  /\ idx' = idx + 1
  /\ pc' = IF idx = Len(case_folders) THEN "summary" ELSE "process"

(***************************************************************************)
(* The cleanup workflow: BoxCleanup.run and what it calls.                  *)
(***************************************************************************)
inputs == << workflow, args, env >>
storage == << children, trash >>
case_locals == << data_files, document_files, del_idx, deleted_count, deleted_bytes >>
recovery_locals == << box_folder_id, box_folder_name, trashed_items, filtered_items,
                      target_folder_id >>
cleanup_locals == << case_folders, completed_folder_id, case_locals >>

\* authenticate_box: missing or refused credentials end the process
authenticate_box ==
  /\ pc = "start"
  /\ IF env.creds_ok
     THEN pc' = "authenticated" /\ exit_code' = exit_code
     ELSE Terminate("exited", 1)
  /\ UNCHANGED << inputs, returned, storage, test_mode, stats, case_folders, idx,
                  completed_folder_id, case_locals, events, faults, dry_result, recovery_locals >>

\* run(): the helper script must exist unless --skip-jira-check
run_verify_helper ==
  /\ workflow = "cleanup"
  /\ pc = "authenticated"
  /\ IF ~args.skip_jira /\ ~env.helper_exists
     THEN Terminate("exited", 1)
     ELSE pc' = "find" /\ exit_code' = exit_code
  /\ UNCHANGED << inputs, returned, storage, test_mode, stats, case_folders, idx,
                  completed_folder_id, case_locals, events, faults, dry_result, recovery_locals >>

\* find_case_folders: list the root, keep and sort the case folders
find_case_folders ==
  /\ workflow = "cleanup"
  /\ pc = "find"
  /\ \E fails \in (IF FaultsLeft THEN BOOLEAN ELSE {FALSE}) :
       IF fails
       THEN /\ Terminate("exited", 1)
            /\ faults' = faults + 1
            /\ UNCHANGED << stats, case_folders >>
       ELSE LET found == MatchingFolders(children[ROOT], args.specific_case)
            IN  /\ stats' = [stats EXCEPT !.folders_found = Len(found)]
                /\ case_folders' = SortByCase(found)
                /\ pc' = "confirm"
                /\ UNCHANGED << exit_code, faults >>
  /\ UNCHANGED << inputs, returned, storage, test_mode, idx, completed_folder_id,
                  case_locals, events, dry_result, recovery_locals >>

\* a variant that asks before a single case too
PromptShown_AlsoSingleCase == ~args.auto_confirm /\ ~test_mode

\* the prompt of run() is shown
PromptShown == ~args.auto_confirm /\ ~test_mode /\ Len(case_folders) > 1

\* response.lower() in ['y', 'yes']
Accepts(response) == Lower(response) \in { <<"y">>, <<"y","e","s">> }

\* run(): nothing found, or the confirmation prompt
run_confirm ==
  /\ workflow = "cleanup"
  /\ pc = "confirm"
  /\ IF case_folders = << >>
     THEN Terminate("returned", 0) /\ returned' = returned
     ELSE IF PromptShown
     THEN \E response \in Responses :
            /\ returned' = PyStr(response)
            /\ IF Accepts(response)
               THEN pc' = "completed" /\ exit_code' = exit_code
               ELSE Terminate("returned", 0)
     ELSE pc' = "completed" /\ exit_code' = exit_code /\ returned' = returned
  /\ UNCHANGED << inputs, storage, test_mode, stats, case_folders, idx,
                  completed_folder_id, case_locals, events, faults, dry_result, recovery_locals >>

\* get_or_create_completed_folder: the listing has a folder named '1Completed'
CompletedListed(ch) ==
  \E i \in 1..Len(ch[ROOT]) :
    ch[ROOT][i].type = "folder" /\ ch[ROOT][i].name = CompletedName

\* get_or_create_completed_folder: the id of the first such folder
CompletedListedId(ch) ==
  LET hits == { i \in 1..Len(ch[ROOT]) :
                  ch[ROOT][i].type = "folder" /\ ch[ROOT][i].name = CompletedName }
  IN  ch[ROOT][CHOOSE i \in hits : \A j \in hits : i <= j].id

\* root_folder.create_subfolder('1Completed'): the storage after it
CreatedStorage(ch) ==
  [ ch EXCEPT ![ROOT] = Append(@, Item(CompletedId, CompletedName, "folder", 0)) ]

\* a variant that creates the folder in a dry run too
CompletedOutcomes_CreatesInDryRun ==
  (IF FaultsLeft THEN {"list_error"} ELSE {})
  \cup (IF CompletedListed(children) THEN {"found"}
        ELSE {"created"} \cup (IF FaultsLeft THEN {"create_error"} ELSE {}))

\* how the remote calls of get_or_create_completed_folder can end: listing
\* refused, folder found, folder absent (dry), folder created, create refused
CompletedOutcomes ==
  (IF FaultsLeft THEN {"list_error"} ELSE {})
  \cup (IF CompletedListed(children) THEN {"found"}
        ELSE IF test_mode THEN {"absent"}
        ELSE {"created"} \cup (IF FaultsLeft THEN {"create_error"} ELSE {}))

\* get_or_create_completed_folder, called from run()
get_or_create_completed_folder ==
  /\ workflow = "cleanup"
  /\ pc = "completed"
  /\ \E outcome \in CompletedOutcomes :
       /\ completed_folder_id' =
            CASE outcome = "found"   -> CompletedListedId(children)
              [] outcome = "created" -> CompletedId
              [] OTHER               -> NoId
       /\ children' = IF outcome = "created" THEN CreatedStorage(children) ELSE children
       /\ events' =
            CASE outcome = "absent" ->
                   Append(events, Event("create", "dry", NoId, NoId, "logged"))
              [] outcome = "created" ->
                   Append(events, Event("create", "call", CompletedId, NoId, "ok"))
              [] outcome = "create_error" ->
                   Append(events, Event("create", "call", NoId, NoId, "api_error"))
              [] OTHER -> events
       /\ faults' = IF outcome \in {"list_error", "create_error"} THEN faults + 1 ELSE faults
       /\ IF outcome = "create_error" \/ (outcome = "list_error" /\ ~test_mode)
          THEN Terminate("exited", 1) /\ idx' = idx
          ELSE pc' = "process" /\ idx' = 1 /\ exit_code' = exit_code
  /\ UNCHANGED << inputs, returned, trash, test_mode, stats, case_folders, case_locals, dry_result, recovery_locals >>

\* process_case_folder up to the readiness verdict
process_case_folder ==
  /\ workflow = "cleanup"
  /\ pc = "process"
  /\ LET cf == case_folders[idx]
     IN  IF ~args.skip_jira /\ ~env.helper_exists
         THEN /\ stats' = [stats EXCEPT !.folders_checked = @ + 1]
              /\ Terminate("exited", 1)
              /\ idx' = idx
         ELSE IF IsReady(cf.case_number)
         THEN /\ stats' = [stats EXCEPT !.folders_checked = @ + 1,
                                        !.folders_ready = @ + 1]
              /\ pc' = "classify"
              /\ UNCHANGED << idx, exit_code >>
         ELSE /\ stats' = [stats EXCEPT !.folders_checked = @ + 1]
              /\ NextCase
              /\ exit_code' = exit_code
  /\ UNCHANGED << inputs, returned, storage, test_mode, case_folders, completed_folder_id,
                  case_locals, events, faults, dry_result, recovery_locals >>

\* a variant that deletes before it moves
AfterClassify_DeleteFirst(found_data) == IF found_data # << >> THEN "delete" ELSE "move"

\* process_case_folder: the step that follows the classification (the move
\* comes first, the deletes after it)
AfterClassify(found_data) == "move"

\* process_case_folder: classify_files_recursive on the case folder
classify_files_recursive ==
  /\ workflow = "cleanup"
  /\ pc = "classify"
  /\ LET cf == case_folders[idx]
     IN  \E bad \in SUBSET FoldersBelow(children, cf.id) :
           /\ Cardinality(bad) <= MaxFaults - faults
           /\ data_files' = DataFilesOf(Walk(children, cf.id, bad))
           /\ document_files' = DocumentFilesOf(Walk(children, cf.id, bad))
           /\ faults' = faults + Cardinality(bad)
  /\ pc' = AfterClassify(data_files')
  /\ del_idx' = 1
  /\ deleted_count' = 0
  /\ deleted_bytes' = 0
  /\ UNCHANGED << inputs, returned, storage, test_mode, exit_code, stats, case_folders, idx,
                  completed_folder_id, events, dry_result, recovery_locals >>

\* a variant that deletes the documents too
FilesToDelete_Everything == data_files \o document_files

\* process_case_folder: the list it hands to delete_data_files
FilesToDelete == data_files

\* how move_folder_to_completed can end for a case folder
MoveOutcomes(cf) ==
  IF test_mode THEN {"dry"}
  ELSE IF completed_folder_id = NoId THEN {"unavailable"}
  ELSE (IF NameInUse(children, completed_folder_id, cf.name) THEN {"in_use"} ELSE {"ok"})
       \cup (IF FaultsLeft THEN {"api_error", "exception"} ELSE {})

\* a variant that takes a refused move for a move
MoveSucceeded_Ignored(outcome) == outcome # "exception"

\* move_folder_to_completed returns True
MoveSucceeded(outcome) == outcome \in {"dry", "ok"}

\* process_case_folder: move_folder_to_completed and what follows its result
move_folder_to_completed ==
  /\ workflow = "cleanup"
  /\ pc = "move"
  /\ LET cf == case_folders[idx]
     IN  \E outcome \in MoveOutcomes(cf) :
           /\ events' =
                CASE outcome = "dry" ->
                       Append(events, Event("move", "dry", cf.id, cf.id, "logged"))
                  [] outcome = "unavailable" -> events
                  [] OTHER ->
                       Append(events, Event("move", "call", cf.id, cf.id, outcome))
           /\ children' = IF outcome = "ok"
                          THEN MovedStorage(children, cf.id, completed_folder_id)
                          ELSE children
           /\ faults' = IF outcome \in {"api_error", "exception"}
                        THEN faults + 1 ELSE faults
           /\ IF MoveSucceeded(outcome)
              THEN /\ stats' = [stats EXCEPT !.folders_moved = @ + 1]
                   /\ IF FilesToDelete # << >>
                      THEN pc' = "delete" /\ idx' = idx
                      ELSE NextCase
              ELSE /\ stats' = IF outcome \in {"api_error", "exception"}
                               THEN [stats EXCEPT !.errors = @ + 1]
                               ELSE stats
                   /\ NextCase
  /\ UNCHANGED << inputs, returned, trash, test_mode, exit_code, case_folders,
                  completed_folder_id, case_locals, dry_result, recovery_locals >>

\* how the delete of one file can end
DeleteOutcomes ==
  IF test_mode THEN {"dry"}
  ELSE {"ok"} \cup (IF FaultsLeft THEN {"api_error", "exception"} ELSE {})

\* a variant that counts a file only when it was really deleted
CountAfter_LiveOnly(outcome, count) ==
  IF outcome = "ok" THEN count + 1 ELSE count

\* delete_data_files: deleted_count after one pass of the loop
CountAfter(outcome, count) ==
  IF outcome \in {"dry", "ok"} THEN count + 1 ELSE count

\* delete_data_files: deleted_bytes after one pass of the loop
BytesAfter(outcome, bytes, size) ==
  IF outcome \in {"dry", "ok"} THEN bytes + size ELSE bytes

\* delete_data_files: one pass of the loop over data_files
delete_data_files ==
  /\ workflow = "cleanup"
  /\ pc = "delete"
  /\ LET file_info == FilesToDelete[del_idx]
         cf == case_folders[idx]
     IN  \E outcome \in DeleteOutcomes :
           /\ events' =
                IF outcome = "dry"
                THEN Append(events, Event("delete", "dry", file_info.id, cf.id, "logged"))
                ELSE Append(events, Event("delete", "call", file_info.id, cf.id, outcome))
           /\ children' = IF outcome = "ok"
                          THEN DeletedStorage(children, file_info.id)
                          ELSE children
           /\ trash' = IF outcome = "ok" THEN Append(trash, file_info) ELSE trash
           /\ faults' = IF outcome \in {"api_error", "exception"}
                        THEN faults + 1 ELSE faults
           /\ deleted_count' = CountAfter(outcome, deleted_count)
           /\ deleted_bytes' = BytesAfter(outcome, deleted_bytes, file_info.size)
           /\ stats' = IF outcome \in {"api_error", "exception"}
                       THEN [stats EXCEPT !.errors = @ + 1]
                       ELSE stats
           /\ IF outcome = "exception"
              THEN NextCase /\ del_idx' = del_idx
              ELSE /\ idx' = idx
                   /\ IF del_idx = Len(FilesToDelete)
                      THEN pc' = "delete_return" /\ del_idx' = del_idx
                      ELSE pc' = "delete" /\ del_idx' = del_idx + 1
  /\ UNCHANGED << inputs, returned, test_mode, exit_code, case_folders, completed_folder_id,
                  data_files, document_files, dry_result, recovery_locals >>

\* delete_data_files after its loop, and the return of process_case_folder
delete_data_files_return ==
  /\ workflow = "cleanup"
  /\ pc = "delete_return"
  /\ stats' = [stats EXCEPT !.files_deleted = @ + deleted_count,
                            !.bytes_deleted = @ + deleted_bytes]
  /\ NextCase
  /\ UNCHANGED << inputs, returned, storage, test_mode, exit_code, case_folders,
                  completed_folder_id, case_locals, events, faults, dry_result, recovery_locals >>

\* _print_summary at the end of run()
print_summary ==
  /\ pc = "summary"
  /\ Terminate("summarized", 0)
  /\ UNCHANGED << inputs, returned, storage, test_mode, stats, case_folders, idx,
                  completed_folder_id, case_locals, events, faults, dry_result, recovery_locals >>

\* the invocation has ended
Ended == pc \in {"summarized", "returned", "exited"}

\* the same command line is run again without --test, on the storage the
\* dry run left; what the dry run ended with is kept for comparison
live_run_after_dry_run ==
  /\ Ended
  /\ test_mode
  /\ dry_result' = [ ended |-> TRUE, pc |-> pc, exit_code |-> exit_code,
                     stats |-> stats, events |-> events, faults |-> faults,
                     filtered_items |-> filtered_items,
                     target_folder_id |-> target_folder_id ]
  /\ test_mode' = FALSE
  /\ pc' = "start"
  /\ exit_code' = -1
  /\ stats' = IF workflow = "cleanup" THEN CleanupStats0 ELSE RecoveryStats0
  /\ box_folder_id' = PyNone
  /\ box_folder_name' = PyNone
  /\ trashed_items' = << >>
  /\ filtered_items' = << >>
  /\ target_folder_id' = NoId
  /\ case_folders' = << >>
  /\ idx' = 0
  /\ completed_folder_id' = NoId
  /\ data_files' = << >>
  /\ document_files' = << >>
  /\ del_idx' = 0
  /\ deleted_count' = 0
  /\ deleted_bytes' = 0
  /\ events' = << >>
  /\ faults' = 0
  /\ UNCHANGED << inputs, returned, storage >>

(***************************************************************************)
(* The recovery workflow (recover_box_files.py): text helpers.              *)
(***************************************************************************)
DigitChar(d) == << "0", "1", "2", "3", "4", "5", "6", "7", "8", "9" >>[d + 1]

\* str(n) of a non-negative int
RECURSIVE IntToStr(_)
IntToStr(n) ==
  IF n < 10 THEN << DigitChar(n) >>
  ELSE IntToStr(n \div 10) \o << DigitChar(n % 10) >>

\* s.startswith(p), s.endswith(p), p in s, s.replace(p, '')
StartsWith(s, p) == Len(p) <= Len(s) /\ SubSeq(s, 1, Len(p)) = p
EndsWith(s, p) == Len(p) <= Len(s) /\ SubSeq(s, Len(s) - Len(p) + 1, Len(s)) = p
Contains(s, p) == \E i \in 0..(Len(s) - Len(p)) : SubSeq(s, i + 1, i + Len(p)) = p
RECURSIVE RemoveAll(_, _)
RemoveAll(s, p) ==
  IF s = << >> \/ p = << >> THEN s
  ELSE IF StartsWith(s, p) THEN RemoveAll(SubSeq(s, Len(p) + 1, Len(s)), p)
  ELSE << Head(s) >> \o RemoveAll(Tail(s), p)

\* str(value)
PyToStr(v) ==
  CASE v.t = "str"   -> v.s
    [] v.t = "int"   -> IntToStr(v.n)
    [] v.t = "float" -> IntToStr(v.whole) \o << "." >> \o IntToStr(v.tenths)
    [] v.t = "none"  -> << "N", "o", "n", "e" >>

\* a variant that leaves a text ending in '.0' as it is
CleanJiraNumericField_KeepsSuffix(value) ==
  IF value.t = "none" THEN PyNone
  ELSE IF value.t = "float" THEN PyStr(IntToStr(value.whole))
  ELSE PyStr(PyToStr(value))

\* _clean_jira_numeric_field
CleanJiraNumericField(value) ==
  IF value.t = "none" THEN PyNone
  ELSE IF value.t = "float" THEN PyStr(IntToStr(value.whole))
  ELSE LET value_str == PyToStr(value)
       IN  IF EndsWith(value_str, << ".", "0" >>)
           THEN PyStr(SubSeq(value_str, 1, Len(value_str) - 2))
           ELSE PyStr(value_str)

AearepDash == << "a", "e", "a", "r", "e", "p", "-" >>

\* a variant without the check of the expected name stripped of its prefix
MatchesFolderName_NoBareCheck(item_name, expected_name) ==
  LET item_lower == Lower(item_name)
      expected_lower == Lower(expected_name)
  IN  \/ item_lower = expected_lower
      \/ Contains(item_lower, expected_lower)
      \/ item_lower = AearepDash \o expected_lower
      \/ Contains(item_lower, AearepDash \o expected_lower)

\* _matches_folder_name
MatchesFolderName(item_name, expected_name) ==
  LET item_lower == Lower(item_name)
      expected_lower == Lower(expected_name)
      bare_expected == RemoveAll(expected_lower, AearepDash)
  IN  \/ item_lower = expected_lower
      \/ Contains(item_lower, expected_lower)
      \/ item_lower = AearepDash \o expected_lower
      \/ Contains(item_lower, AearepDash \o expected_lower)
      \/ /\ StartsWith(expected_lower, AearepDash)
         /\ (item_lower = bare_expected \/ Contains(item_lower, bare_expected))

(***************************************************************************)
(* The trash and the Jira issue the recovery reads.  Time is in hours; a    *)
(* trashed_at string is its wall clock and its UTC offset (kind "aware"),   *)
(* a wall clock without offset ("naive"), text fromisoformat rejects        *)
(* ("bad"), or absent ("none").                                             *)
(***************************************************************************)
\* datetime.utcnow() when BoxRecovery is constructed
RunStart == 480
HoursPerDay == 24

Aware(wall, off) == [kind |-> "aware", wall |-> wall, off |-> off]
Naive(wall) == [kind |-> "naive", wall |-> wall, off |-> 0]
BadTime == [kind |-> "bad", wall |-> 0, off |-> 0]
NoTime == [kind |-> "none", wall |-> 0, off |-> 0]

\* trashed_by: absent, a dict with a login, or an SDK object
ByNobody == [kind |-> "none", login |-> << >>]
ByDict(login) == [kind |-> "dict", login |-> login]
ByObject(login) == [kind |-> "object", login |-> login]

\* path_collection: absent, or a dict whose entries are dicts or SDK objects
NoPath == [kind |-> "none", entries |-> << >>]
PathOf(entries) == [kind |-> "dict", entries |-> entries]
PathEntry(is_dict, id) == [dict |-> is_dict, id |-> id]

Trashed(id, name, type, size, trashed_at, trashed_by, path_collection, parent) ==
  [ id |-> id, name |-> name, type |-> type, size |-> size,
    trashed_at |-> trashed_at, trashed_by |-> trashed_by,
    path_collection |-> path_collection, parent |-> parent ]

AeadataLogin == << "A", "E", "A", "d", "a", "t", "a" >>
OtherLogin == << "l", "v" >>
CaseFolderId == 555
CaseFolderName == << "a", "e", "a", "r", "e", "p", "-", "7", "7", "1", "2" >>

\* what the trash may hold
TrashCatalog ==
  << Trashed(701, << "a", ".", "c", "s", "v" >>, "file", 2,
             Aware(RunStart - 48, 0), ByDict(AeadataLogin), NoPath, CaseFolderId),
     Trashed(702, << "b", ".", "d", "t", "a" >>, "file", 4,
             Aware(RunStart - 172, -8), ByDict(AeadataLogin),
             PathOf(<< PathEntry(TRUE, CompletedId), PathEntry(TRUE, CaseFolderId) >>), NoId),
     Trashed(CaseFolderId, CaseFolderName, "folder", 0,
             Naive(RunStart - 30), ByObject(AeadataLogin), NoPath, CompletedId),
     Trashed(704, << "7", "7", "1", "2", ".", "t", "x", "t" >>, "file", 1,
             NoTime, ByNobody, NoPath, NoId),
     Trashed(705, << "z", ".", "c", "s", "v" >>, "file", 2,
             Aware(RunStart - 24, 0), ByDict(OtherLogin), NoPath, CaseFolderId) >>

\* the raw values of the two custom fields of the issue
IdRaws == { PyNone, PyStr(<< "5", "5", "5" >>), PyFloat(CaseFolderId, 0),
            PyStr(<< ".", "0" >>) }
NameRaws == { PyNone, PyStr(CaseFolderName), PyFloat(7712, 0) }

\* python3 recover_box_files.py --case 8040 --test [--list] [--yes]
InitRecovery ==
  /\ workflow = "recovery"
  /\ \E in_root \in BOOLEAN, archived \in BOOLEAN, restored \in BOOLEAN :
       /\ archived => in_root
       /\ restored => archived
       /\ children = [ f \in FolderIds |->
            IF f = ROOT
            THEN IF in_root THEN << Item(CompletedId, CompletedName, "folder", 0) >> ELSE << >>
            ELSE IF f = CompletedId
            THEN IF archived THEN << Item(CaseFolderId, CaseFolderName, "folder", 0) >> ELSE << >>
            ELSE IF f = CaseFolderId
            THEN IF restored THEN << Item(601, << "a", ".", "c", "s", "v" >>, "file", 2) >>
                 ELSE << >>
            ELSE InitialChildren(f) ]
  /\ trash \in SubListings(TrashCatalog, MaxTrashItems)
  \* a folder is either archived or in the trash
  /\ children[CompletedId] # << >> => \A i \in 1..Len(trash) : trash[i].id # CaseFolderId
  /\ args \in [ case_number : { << "8", "0", "4", "0" >> },
                days_back : { 7 },
                list_only : BOOLEAN,
                auto_confirm : BOOLEAN ]
  /\ env \in [ creds_ok : BOOLEAN, jira_ok : BOOLEAN, trash_api : BOOLEAN,
               issue_found : BOOLEAN, id_field : BOOLEAN, name_field : BOOLEAN,
               id_raw : IdRaws, name_raw : NameRaws ]
  \* inputs nothing reads are fixed, not enumerated
  /\ ~env.creds_ok => env.jira_ok
  /\ ~env.jira_ok => env.issue_found
  /\ ~env.issue_found => env.id_field
  /\ ~env.id_field => env.id_raw = PyNone
  /\ ~Truthy(CleanJiraNumericField(env.id_raw)) =>
       /\ env.name_field /\ env.name_raw = PyNone
       /\ env.trash_api /\ ~args.list_only /\ ~args.auto_confirm
       /\ trash = << >> /\ children[ROOT] = << >>
  /\ ~env.name_field => env.name_raw = PyNone
  /\ ~env.trash_api => \A i \in 1..Len(trash) : trash[i].id = CaseFolderId
  /\ args.list_only =>
       /\ ~args.auto_confirm
       /\ children[ROOT] = << >>
  /\ stats = RecoveryStats0
  /\ Constructed(TRUE)
  /\ dry_result = [ended |-> FALSE]

(***************************************************************************)
(* Actions of the recovery workflow.                                        *)
(***************************************************************************)
\* authenticate_jira: exits 1 unless Jira accepts the credentials
authenticate_jira ==
  /\ workflow = "recovery"
  /\ pc = "authenticated"
  /\ IF env.jira_ok
     THEN pc' = "jira" /\ exit_code' = exit_code
     ELSE Terminate("exited", 1)
  /\ UNCHANGED << inputs, returned, storage, test_mode, stats, idx, cleanup_locals, events,
                  faults, dry_result, recovery_locals >>

\* a variant that gives up when the folder name is missing
BoxInfoFromJira_NeedsName ==
  LET id_raw == IF env.id_field THEN env.id_raw ELSE PyNone
      cleaned_id == CleanJiraNumericField(id_raw)
      name_raw == IF env.name_field THEN env.name_raw ELSE PyNone
  IN  IF ~env.issue_found \/ ~env.id_field \/ ~Truthy(id_raw) \/ ~Truthy(cleaned_id)
         \/ ~Truthy(name_raw)
      THEN << PyNone, PyNone >>
      ELSE << cleaned_id, CleanJiraNumericField(name_raw) >>

\* get_box_info_from_jira: (box_folder_id, folder_name), or (None, None)
BoxInfoFromJira ==
  LET id_raw == IF env.id_field THEN env.id_raw ELSE PyNone
      cleaned_id == CleanJiraNumericField(id_raw)
      name_raw == IF env.name_field THEN env.name_raw ELSE PyNone
      folder_name == IF Truthy(name_raw) THEN CleanJiraNumericField(name_raw) ELSE PyNone
  IN  IF ~env.issue_found \/ ~env.id_field \/ ~Truthy(id_raw) \/ ~Truthy(cleaned_id)
      THEN << PyNone, PyNone >>
      ELSE << cleaned_id, folder_name >>

\* run(): look the case up in Jira; exit 1 without a Box folder id
get_box_info_from_jira ==
  /\ pc = "jira"
  /\ box_folder_id' = BoxInfoFromJira[1]
  /\ box_folder_name' = BoxInfoFromJira[2]
  /\ IF ~Truthy(box_folder_id')
     THEN Terminate("exited", 1)
     ELSE pc' = "trash" /\ exit_code' = exit_code
  /\ UNCHANGED << inputs, returned, storage, test_mode, stats, idx, cleanup_locals, events,
                  faults, dry_result, trashed_items, filtered_items, target_folder_id >>

\* get_trashed_items, the loop: one dictionary per trashed item; 'id' is text
ItemDict(item) ==
  [ id |-> IntToStr(item.id), name |-> item.name, type |-> item.type,
    size |-> item.size, trashed_at |-> item.trashed_at,
    trashed_by |-> item.trashed_by, path_collection |-> item.path_collection,
    parent_id |-> IF item.parent = NoId THEN PyNone ELSE PyStr(IntToStr(item.parent)) ]

\* get_trashed_items, the alternative approach: the folder itself, if trashed
FolderDirectly(folder_id) ==
  LET hits == SelectSeq(trash, LAMBDA it : it.type = "folder" /\ IntToStr(it.id) = folder_id)
  IN  IF hits = << >> THEN << >>
      ELSE << [ id |-> IntToStr(hits[1].id), name |-> hits[1].name, type |-> "folder",
                size |-> 0, trashed_at |-> hits[1].trashed_at, trashed_by |-> ByNobody,
                path_collection |-> NoPath, parent_id |-> PyNone ] >>

\* how the remote calls of get_trashed_items can end
TrashOutcomes == {"answered"} \cup (IF FaultsLeft THEN {"api_error"} ELSE {})

\* get_trashed_items
get_trashed_items ==
  /\ pc = "trash"
  /\ \E outcome \in TrashOutcomes :
       /\ trashed_items' =
            IF outcome = "api_error" THEN << >>
            ELSE IF env.trash_api
            THEN [ i \in 1..Len(trash) |-> ItemDict(trash[i]) ]
            ELSE FolderDirectly(box_folder_id.s)
       /\ faults' = IF outcome = "api_error" THEN faults + 1 ELSE faults
  /\ pc' = "filter"
  /\ UNCHANGED << inputs, returned, storage, test_mode, exit_code, stats, idx, cleanup_locals,
                  events, dry_result, box_folder_id, box_folder_name, filtered_items,
                  target_folder_id >>

\* BoxRecovery.__init__: self.cutoff_date
CutoffDate == RunStart - HoursPerDay * args.days_back

\* filter_trashed_items, by date: the item is skipped as deleted before the
\* cutoff.  The cutoff takes the item's UTC offset without being shifted.
DeletedBeforeCutoff(trashed_at) ==
  CASE trashed_at.kind = "aware" ->
         (trashed_at.wall - trashed_at.off) < (CutoffDate - trashed_at.off)
    [] trashed_at.kind = "naive" -> trashed_at.wall < CutoffDate
    [] OTHER -> FALSE

\* filter_trashed_items, by user: the item is skipped as not deleted by the user
NotDeletedBy(trashed_by, user_filter) ==
  /\ user_filter # << >>
  /\ trashed_by.kind # "none"
  /\ LET user_login == IF trashed_by.kind = "dict" THEN trashed_by.login ELSE << >>
     IN  ~Contains(Lower(user_login), Lower(user_filter))

\* filter_trashed_items, by folder: checks 1 to 4 and the no-criteria case
ItemMatches(item, folder_id, folder_name) ==
  \/ Truthy(folder_id) /\ item.id = folder_id.s
  \/ Truthy(folder_id) /\ Truthy(item.parent_id) /\ item.parent_id = folder_id
  \/ /\ Truthy(folder_id)
     /\ item.path_collection.kind = "dict"
     /\ \E k \in 1..Len(item.path_collection.entries) :
          /\ item.path_collection.entries[k].dict
          /\ IntToStr(item.path_collection.entries[k].id) = folder_id.s
  \/ Truthy(folder_name) /\ MatchesFolderName(item.name, folder_name.s)
  \/ ~Truthy(folder_id) /\ ~Truthy(folder_name)

UserFilter == << "a", "e", "a", "d", "a", "t", "a" >>

\* filter_trashed_items
FilterTrashedItems(items, folder_id, folder_name, user_filter) ==
  SelectSeq(items, LAMBDA item :
    /\ ~DeletedBeforeCutoff(item.trashed_at)
    /\ ~NotDeletedBy(item.trashed_by, user_filter)
    /\ ItemMatches(item, folder_id, folder_name))

\* run(): filter the trashed items and count them
filter_trashed_items ==
  /\ pc = "filter"
  /\ filtered_items' =
       FilterTrashedItems(trashed_items, box_folder_id, box_folder_name, UserFilter)
  /\ stats' = [ stats EXCEPT !.items_found = Len(filtered_items') ]
  /\ pc' = "listed"
  /\ UNCHANGED << inputs, returned, storage, test_mode, exit_code, idx, cleanup_locals, events,
                  faults, dry_result, box_folder_id, box_folder_name, trashed_items,
                  target_folder_id >>

\* a variant that never asks
RestorePromptShown_Never == FALSE

\* run(): the confirmation prompt of the recovery is shown
RestorePromptShown == ~args.auto_confirm /\ ~test_mode

\* run(): with a folder name the case folder is searched in '1Completed' first
TargetStep == IF Truthy(box_folder_name) THEN "target" ELSE "target_root"

\* run(): --list, nothing to restore, or the confirmation prompt
run_list_or_confirm ==
  /\ pc = "listed"
  /\ IF args.list_only \/ filtered_items = << >>
     THEN Terminate("returned", 0) /\ returned' = returned
     ELSE IF RestorePromptShown
     THEN \E response \in Responses :
            /\ returned' = PyStr(response)
            /\ IF Accepts(response)
               THEN pc' = TargetStep /\ exit_code' = exit_code
               ELSE Terminate("returned", 0)
     ELSE pc' = TargetStep /\ exit_code' = exit_code /\ returned' = returned
  /\ UNCHANGED << inputs, storage, test_mode, stats, idx, cleanup_locals, events,
                  faults, dry_result, recovery_locals >>

\* get_or_create_completed_folder of the recovery: what a call that ends in
\* that outcome returns and leaves behind
CompletedCall(outcome) ==
  [ id |-> CASE outcome = "found"   -> CompletedListedId(children)
             [] outcome = "created" -> CompletedId
             [] OTHER               -> NoId,
    children |-> IF outcome = "created" THEN CreatedStorage(children) ELSE children,
    events |->
      CASE outcome = "absent" ->
             Append(events, Event("create", "dry", NoId, NoId, "logged"))
        [] outcome = "created" ->
             Append(events, Event("create", "call", CompletedId, NoId, "ok"))
        [] outcome = "create_error" ->
             Append(events, Event("create", "call", NoId, NoId, "api_error"))
        [] OTHER -> events,
    failed |-> outcome \in {"list_error", "create_error"},
    exits |-> outcome \in {"list_error", "create_error"} /\ ~test_mode ]

\* find_case_folder_in_completed, the loop: the first folder of the listing
\* that matches the folder name, or no id
FirstMatchingFolder(listing, folder_name) ==
  LET hits == SelectSeq(listing, LAMBDA it :
                 it.type = "folder" /\ MatchesFolderName(it.name, folder_name))
  IN  IF hits = << >> THEN NoId ELSE hits[1].id

\* run(): find_case_folder_in_completed(box_folder_name)
find_case_folder_in_completed ==
  /\ pc = "target"
  /\ \E outcome \in CompletedOutcomes :
     \E listing_fails \in BOOLEAN :
       LET call == CompletedCall(outcome)
           found == IF call.id = NoId \/ listing_fails THEN NoId
                    ELSE FirstMatchingFolder(call.children[call.id], box_folder_name.s)
       IN  /\ children' = call.children
           /\ events' = call.events
           /\ faults' = IF call.failed \/ listing_fails THEN faults + 1 ELSE faults
           /\ listing_fails => (call.id # NoId /\ FaultsLeft)
           /\ target_folder_id' = found
           /\ IF call.exits
              THEN Terminate("exited", 1) /\ idx' = idx
              ELSE IF found = NoId
              THEN pc' = "target_root" /\ idx' = idx /\ exit_code' = exit_code
              ELSE pc' = "restore" /\ idx' = 1 /\ exit_code' = exit_code
  /\ UNCHANGED << inputs, returned, trash, test_mode, stats, cleanup_locals, dry_result,
                  box_folder_id, box_folder_name, trashed_items, filtered_items >>

\* run(): fall back to the '1Completed' root; without a target, return
restore_to_completed_root ==
  /\ pc = "target_root"
  /\ \E outcome \in CompletedOutcomes :
       LET call == CompletedCall(outcome)
       IN  /\ children' = call.children
           /\ events' = call.events
           /\ faults' = IF call.failed THEN faults + 1 ELSE faults
           /\ target_folder_id' = call.id
           /\ IF call.exits
              THEN Terminate("exited", 1) /\ idx' = idx
              ELSE IF call.id = NoId
              THEN Terminate("returned", 0) /\ idx' = idx
              ELSE pc' = "restore" /\ idx' = 1 /\ exit_code' = exit_code
  /\ UNCHANGED << inputs, returned, trash, test_mode, stats, cleanup_locals, dry_result,
                  box_folder_id, box_folder_name, trashed_items, filtered_items >>

\* the trashed item a dictionary of the filtered list stands for
TrashedOf(item) ==
  CHOOSE it \in { trash[i] : i \in 1..Len(trash) } : IntToStr(it.id) = item.id

\* trashed_item.restore(parent_folder=target): the storage after it
RestoredChildren(ch, item, target) ==
  [ ch EXCEPT ![target] =
      Append(@, Item(TrashedOf(item).id, item.name, item.type, TrashedOf(item).size)) ]

\* a variant that restores in a dry run too
RestoreOutcomes_AlwaysLive(item, target) ==
  IF target = NoId THEN {"no_target"}
  ELSE (IF NameInUse(children, target, item.name) THEN {"in_use"} ELSE {"ok"})
       \cup (IF FaultsLeft THEN {"api_error", "exception"} ELSE {})

\* how restore_item can end: logged only (dry run), no target, restored,
\* refused because the name is taken, refused otherwise, any other exception
RestoreOutcomes(item, target) ==
  IF test_mode THEN {"dry"}
  ELSE IF target = NoId THEN {"no_target"}
  ELSE (IF NameInUse(children, target, item.name) THEN {"in_use"} ELSE {"ok"})
       \cup (IF FaultsLeft THEN {"api_error", "exception"} ELSE {})

\* a variant that counts a refused restore as restored
RestoredAfter_CountsRefused(outcome, count) ==
  IF outcome \in {"ok", "in_use"} THEN count + 1 ELSE count

\* restore_item: self.stats['items_restored'] after that outcome
RestoredAfter(outcome, count) == IF outcome = "ok" THEN count + 1 ELSE count

\* run(), one pass of the loop over filtered_items: restore_item
restore_item ==
  /\ pc = "restore"
  /\ idx <= Len(filtered_items)
  /\ LET item == filtered_items[idx]
     IN  \E outcome \in RestoreOutcomes(item, target_folder_id) :
           /\ children' = IF outcome = "ok"
                          THEN RestoredChildren(children, item, target_folder_id)
                          ELSE children
           /\ trash' = IF outcome = "ok" THEN RemoveItem(trash, TrashedOf(item).id) ELSE trash
           /\ events' =
                CASE outcome = "dry" ->
                       Append(events, Event("restore", "dry", TrashedOf(item).id, target_folder_id,
                                              "logged"))
                  [] outcome = "no_target" -> events
                  [] OTHER ->
                       Append(events, Event("restore", "call", TrashedOf(item).id, target_folder_id,
                                              outcome))
           /\ stats' = [ stats EXCEPT
                           !.items_restored = RestoredAfter(outcome, @),
                           !.errors = IF outcome \in {"api_error", "exception"}
                                      THEN @ + 1 ELSE @ ]
           /\ faults' = IF outcome \in {"api_error", "exception"}
                        THEN faults + 1 ELSE faults
  /\ idx' = idx + 1
  /\ pc' = IF idx = Len(filtered_items) THEN "summary" ELSE "restore"
  /\ UNCHANGED << inputs, returned, test_mode, exit_code, cleanup_locals, dry_result, recovery_locals >>

Init == InitCleanup \/ InitRecovery

Next ==
  \/ authenticate_box
  \/ run_verify_helper
  \/ find_case_folders
  \/ run_confirm
  \/ get_or_create_completed_folder
  \/ process_case_folder
  \/ classify_files_recursive
  \/ move_folder_to_completed
  \/ delete_data_files
  \/ delete_data_files_return
  \/ authenticate_jira
  \/ get_box_info_from_jira
  \/ get_trashed_items
  \/ filter_trashed_items
  \/ run_list_or_confirm
  \/ find_case_folder_in_completed
  \/ restore_to_completed_root
  \/ restore_item
  \/ print_summary
  \/ live_run_after_dry_run

Spec == Init /\ [][Next]_vars

(***************************************************************************)
(* Vocabulary of the properties.                                            *)
(***************************************************************************)
\* the ids of a sequence of records
IdsOf(seq) == { seq[i].id : i \in 1..Len(seq) }

\* what the folders below the root held before any run
InitialStorage == [ f \in FolderIds |-> InitialChildren(f) ]

\* the files below a folder of a storage
FilesBelow(ch, folder_id) == Walk(ch, folder_id, {})

\* the name the file of that id has
NameOfFile(file_id) ==
  LET files == UNION { { InitialChildren(f)[i] : i \in 1..Len(InitialChildren(f)) } :
                         f \in FolderIds }
  IN  (CHOOSE it \in files : it.id = file_id).name

\* the name ends in one of the data extensions, whatever its letter case
HasDataExtension(name) == SplitExt(Lower(name)) \in DATA_FILE_EXTENSIONS

\* the move or delete was carried out (live) or logged in its place (dry run)
Done(e) == e.result \in {"ok", "logged"}

\* the case number of a case folder of this run
CaseNumberOf(folder_id) ==
  case_folders[CHOOSE k \in 1..Len(case_folders) : case_folders[k].id = folder_id].case_number

\* the for loop of run() stands between two cases, or is over
BetweenCases == pc \in {"process", "summary", "summarized"}

\* every mutating storage call of this invocation succeeded
MutationsSucceeded == \A j \in 1..Len(events) : events[j].mode = "call" => events[j].result = "ok"

\* the live run was cancelled at the confirmation prompt
Cancelled == pc = "returned" /\ case_folders # << >>

MoveFailedStep ==
  /\ pc = "move"
  /\ events' = events \/ ~Done(events'[Len(events')])

C2_FailedMoveBlocksDelete ==
  /\ [](\A i \in 1..Len(events) :
          (events[i].op = "move" /\ ~Done(events[i])) =>
             \A j \in 1..Len(events) :
               ~(events[j].op = "delete" /\ events[j].case = events[i].case))
  /\ [][ MoveFailedStep =>
           /\ pc' \in {"process", "summary"}
           /\ idx' = idx + 1
           /\ stats'.files_deleted = stats.files_deleted
           /\ stats'.bytes_deleted = stats.bytes_deleted
           /\ stats'.folders_moved = stats.folders_moved ]_vars

C2_Witness ==
  /\ pc = "summarized"
  /\ \E i \in 1..Len(events) : events[i].op = "move" /\ events[i].result = "in_use"
  /\ \E i \in 1..Len(events) : events[i].op = "move" /\ events[i].result = "ok"

(***************************************************************************)
(* C3: a case folder is moved, or has files deleted, only when the helper   *)
(* reported it ready in this run or --skip-jira-check is set; processing a  *)
(* case that is not ready adds one to folders_checked, leaves every other   *)
(* counter alone and issues no move and no delete.                          *)
(***************************************************************************)
NotReadyStep ==
  /\ workflow = "cleanup"
  /\ pc = "process"
  /\ ~args.skip_jira
  /\ env.helper_exists
  /\ env.verdict[case_folders[idx].case_number] # "exit0"

C3_OnlyReadyCasesAreTouched ==
  /\ [](\A j \in 1..Len(events) :
          events[j].op \in {"move", "delete"} =>
             \/ args.skip_jira
             \/ env.verdict[CaseNumberOf(events[j].case)] = "exit0")
  /\ [][ NotReadyStep =>
           /\ stats' = [stats EXCEPT !.folders_checked = @ + 1]
           /\ events' = events
           /\ children' = children
           /\ idx' = idx + 1 ]_vars

C3_Witness ==
  /\ ~test_mode
  /\ pc = "summarized"
  /\ stats.folders_checked = 2
  /\ stats.folders_ready = 1
  /\ stats.folders_moved = 1

(***************************************************************************)
(* C4: every delete the cleanup issues is for a file the classifier put in  *)
(* the data list of the case being processed; a file classified as         *)
(* document, such as one with an unrecognized extension, is never deleted.  *)
(***************************************************************************)
C4_OnlyDataFilesAreDeleted ==
  \A j \in 1..Len(events) :
    events[j].op = "delete" =>
      /\ HasDataExtension(NameOfFile(events[j].target))
      /\ (pc \in {"delete", "delete_return"} /\ events[j].case = case_folders[idx].id) =>
            /\ events[j].target \in IdsOf(data_files)
            /\ events[j].target \notin IdsOf(document_files)

C4_Witness ==
  /\ ~test_mode
  /\ pc = "delete_return"
  /\ document_files # << >>
  /\ \E j \in 1..Len(events) :
       events[j].op = "delete" /\ events[j].mode = "call" /\ events[j].result = "ok"

(***************************************************************************)
(* C5: in dry-run mode no run of either workflow issues a mutating storage  *)
(* call: no delete, no move, no folder creation, no restore; the storage    *)
(* and the trash stay as they were.                                         *)
(***************************************************************************)
C5_DryRunIssuesNoMutation ==
  /\ [](test_mode => \A j \in 1..Len(events) : events[j].mode = "dry")
  /\ [][test_mode => (children' = children /\ trash' = trash)]_vars

\* a dry run of the cleanup that logged a creation, a move and a delete
C5_Witness ==
  /\ test_mode
  /\ pc = "summarized"
  /\ \A op \in {"create", "move", "delete"} :
       \E j \in 1..Len(events) : events[j].op = op /\ events[j].mode = "dry"

(***************************************************************************)
(* C6: a dry run and a live run of the cleanup over the same storage,       *)
(* command line and verdicts, in which no remote call fails, end with the   *)
(* same statistics counters.                                                *)
(*   As claimed, for every live run (C6_Original): refuted, the live run    *)
(*   can be cancelled at the confirmation prompt a dry run never shows.     *)
(*   As amended, for live runs not cancelled at the prompt (C6_Amended).    *)
(***************************************************************************)
ComparableRuns ==
  /\ workflow = "cleanup"
  /\ ~test_mode
  /\ Ended
  /\ dry_result.ended
  /\ dry_result.faults = 0
  /\ faults = 0
  /\ MutationsSucceeded

ComparableRecoveries ==
  /\ workflow = "recovery"
  /\ ~test_mode
  /\ dry_result.ended
  /\ pc = "summarized"
  /\ dry_result.pc = "summarized"
  /\ filtered_items = dry_result.filtered_items
  /\ target_folder_id = dry_result.target_folder_id
  /\ dry_result.faults = 0
  /\ faults = 0
  /\ MutationsSucceeded

C7_Original == ComparableRecoveries => stats = dry_result.stats

(***************************************************************************)
(* C8: processing a ready case whose move and deletes all succeed moves the *)
(* folder into the archive, deletes exactly the files classified as data    *)
(* and keeps every document; folders_moved counts the case and              *)
(* files_deleted its data files (one .csv and one .pdf: folders_moved = 1,  *)
(* files_deleted = 1, the .pdf still there).                                *)
(***************************************************************************)
MovedCases ==
  { events[i].case : i \in { j \in 1..Len(events) :
                               events[j].op = "move" /\ events[j].result = "ok" } }

DeleteCalls == { j \in 1..Len(events) : events[j].op = "delete" /\ events[j].mode = "call" }

C8_ReadyCaseIsArchivedAndPurged ==
  (workflow = "cleanup" /\ ~test_mode /\ BetweenCases /\ faults = 0) =>
    /\ \A c \in MovedCases :
         LET before == FilesBelow(InitialStorage, c)
             now    == FilesBelow(children, c)
         IN  /\ c \in IdsOf(children[completed_folder_id])
             /\ c \notin IdsOf(children[ROOT])
             /\ { events[j].target : j \in { k \in DeleteCalls : events[k].case = c } }
                  = { f \in IdsOf(before) : HasDataExtension(NameOfFile(f)) }
             /\ IdsOf(now) = { f \in IdsOf(before) : ~HasDataExtension(NameOfFile(f)) }
    /\ stats.folders_moved = Cardinality(MovedCases)
    /\ stats.files_deleted = Cardinality(DeleteCalls)

C8_Witness ==
  /\ workflow = "cleanup" /\ ~test_mode /\ pc = "summarized" /\ faults = 0
  /\ MovedCases = {11}
  /\ stats.folders_moved = 1
  /\ stats.files_deleted = 1
  /\ IdsOf(children[11]) = {112}
  /\ 11 \in IdsOf(children[completed_folder_id])

(***************************************************************************)
(* The classifier and the case-folder matcher on a wide set of names.  Each *)
(* specification starts a dry run at the call of the function, on a storage *)
(* whose listing holds one item of a drawn name.                            *)
(***************************************************************************)
\* str.upper()
Upper(s) ==
  [ i \in 1..Len(s) |->
      IF \E k \in 1..Len(LowerLetters) : LowerLetters[k] = s[i]
      THEN UpperLetters[CHOOSE k \in 1..Len(LowerLetters) : LowerLetters[k] = s[i]]
      ELSE s[i] ]

\* the first letter of the text in upper case
Capitalized(s) ==
  [ i \in 1..Len(s) |->
      IF \A j \in 1..(i - 1) : s[j] \notin { LowerLetters[k] : k \in 1..Len(LowerLetters) }
      THEN Upper(<< s[i] >>)[1] ELSE s[i] ]

\* what precedes the extension in the drawn file names
FileStems == { <<"a">>, <<"A",".","b">>, <<"a",".">>, <<".">>, << >> }

\* extensions in neither set, and no extension
OtherExtensions == { <<".","f","o","o">>, <<".","c","s","v","x">>, <<".","c","s">>, <<".","p","d">>, << >>, <<".">> }

\* the drawn file names
FileNames ==
  { stem \o ext :
      stem \in FileStems,
      ext \in UNION { { e, Upper(e), Capitalized(e) } :
                        e \in DATA_FILE_EXTENSIONS \cup DOCUMENT_EXTENSIONS
                              \cup OtherExtensions } } \ { << >> }

\* the drawn folder names: a prefix, a separator, a tail
FolderNames ==
  { prefix \o sep \o tail :
      prefix \in { <<"a","e","a","r","e","p">>, <<"A","E","A","R","E","P">>, <<"A","e","a","R","e","p">>, <<"x","a","e","a","r","e","p">>, <<"a","e","a","r","e">>, <<"a","e","a","r","e","p","p">>, << >> },
      sep \in { <<"-">>, << >>, <<"_">>, <<"-","-">> },
      tail \in { << >>, <<"1">>, <<"1","2">>, <<"0","0","7">>, <<"1","2","a">>, <<"a","1","2">>, <<"1"," ","2">>, <<"1","2","-","3">>, <<"9">> } } \ { << >> }

\* the state of a dry run that has reached the given step for root item 11
MidRun(step) ==
  /\ workflow = "cleanup"
  /\ env = [ creds_ok |-> TRUE, helper_exists |-> TRUE,
             verdict |-> [ c \in CaseNumbers |-> "exit0" ] ]
  /\ trash = << >>
  /\ test_mode = TRUE
  /\ pc = step
  /\ exit_code = -1
  /\ data_files = << >>
  /\ document_files = << >>
  /\ del_idx = 0
  /\ deleted_count = 0
  /\ deleted_bytes = 0
  /\ faults = 0
  /\ box_folder_id = PyNone
  /\ box_folder_name = PyNone
  /\ trashed_items = << >>
  /\ filtered_items = << >>
  /\ target_folder_id = NoId
  /\ returned = PyNone
  /\ dry_result = [ended |-> FALSE]

\* a dry run about to classify the files of case folder aearep-12, which
\* holds one file of a drawn name
InitClassify ==
  /\ MidRun("classify")
  /\ args = [ specific_case |-> << >>, auto_confirm |-> FALSE, skip_jira |-> FALSE ]
  /\ \E name \in FileNames :
       children = [ f \in FolderIds |->
                      IF f = ROOT THEN << RootCatalog[1] >>
                      ELSE IF f = 11 THEN << Item(111, name, "file", 2) >>
                      ELSE << >> ]
  /\ stats = [ CleanupStats0 EXCEPT !.folders_found = 1, !.folders_checked = 1,
                                    !.folders_ready = 1 ]
  /\ case_folders = MatchingFolders(<< RootCatalog[1] >>, << >>)
  /\ idx = 1
  /\ completed_folder_id = NoId
  /\ events = << Event("create", "dry", NoId, NoId, "logged") >>

SpecClassify == InitClassify /\ [][classify_files_recursive]_vars

\* a dry run about to scan a root folder that holds one item of a drawn name
InitFind ==
  /\ MidRun("find")
  /\ args \in [ specific_case : { << >>, <<"1","2">> },
                auto_confirm : {FALSE}, skip_jira : {FALSE} ]
  /\ \E name \in FolderNames : \E type \in {"folder", "file"} :
       children = [ f \in FolderIds |->
                      IF f = ROOT THEN << Item(11, name, type, 0) >> ELSE << >> ]
  /\ stats = CleanupStats0
  /\ case_folders = << >>
  /\ idx = 0
  /\ completed_folder_id = NoId
  /\ events = << >>

SpecFind == InitFind /\ [][find_case_folders]_vars

(***************************************************************************)
(* C9: the bucket of a file depends only on the lowercased extension of its *)
(* name: a name ending in an extension of the data set goes to the data     *)
(* list; a name ending in an extension of the document set, in any other    *)
(* extension or in none goes to the document list; every listed file is in  *)
(* exactly one of the two lists.                                            *)
(***************************************************************************)
\* the name is a stem that is not made of dots only, followed by ext
EndsWithExtension(name, ext) ==
  /\ Len(name) > Len(ext)
  /\ SubSeq(Lower(name), Len(name) - Len(ext) + 1, Len(name)) = ext
  /\ \E i \in 1..(Len(name) - Len(ext)) : name[i] # "."

Classified == workflow = "cleanup" /\ pc = "move"

C9_BucketByLowercasedExtension ==
  Classified =>
    /\ \A i \in 1..Len(data_files) :
         \E e \in DATA_FILE_EXTENSIONS : EndsWithExtension(data_files[i].name, e)
    /\ \A i \in 1..Len(document_files) :
         \A e \in DATA_FILE_EXTENSIONS : ~EndsWithExtension(document_files[i].name, e)
    /\ IdsOf(data_files) \cap IdsOf(document_files) = {}
    /\ Len(data_files) + Len(document_files)
         = Cardinality(IdsOf(data_files) \cup IdsOf(document_files))
    /\ faults = 0 =>
         IdsOf(data_files) \cup IdsOf(document_files)
           = IdsOf(FilesBelow(children, case_folders[idx].id))

C9_Witness ==
  /\ Classified
  /\ \E i \in 1..Len(data_files) :
       data_files[i].name = <<"A",".","b",".","S","A","S","7","B","D","A","T">>

(***************************************************************************)
(* C10: the matcher accepts a folder name exactly when it is 'aearep' in    *)
(* any letter case, a hyphen, and one or more digits, with nothing before   *)
(* or after, and the case number it extracts is that digit run;             *)
(* 'aearep-12a' and 'xaearep-12' are rejected.                              *)
(***************************************************************************)
\* the name is aearep (any letter case), "-", digits
IsCaseName(name) ==
  /\ Len(name) >= 8
  /\ Lower(SubSeq(name, 1, 6)) = <<"a","e","a","r","e","p">>
  /\ name[7] = "-"
  /\ \A i \in 8..Len(name) : name[i] \in Digits

Scanned == workflow = "cleanup" /\ pc = "confirm"

\* the folders of the root listing the --case filter does not concern
Unfiltered(item) ==
  /\ item.type = "folder"
  /\ args.specific_case # << >> => args.specific_case = SubSeq(item.name, 8, Len(item.name))

C10_MatcherAcceptsExactlyCaseNames ==
  Scanned =>
    /\ \A i \in 1..Len(children[ROOT]) :
         Unfiltered(children[ROOT][i]) =>
           (IsCaseName(children[ROOT][i].name)
              <=> children[ROOT][i].id \in IdsOf(case_folders))
    /\ \A k \in 1..Len(case_folders) :
         /\ IsCaseName(case_folders[k].name)
         /\ case_folders[k].case_number
              = SubSeq(case_folders[k].name, 8, Len(case_folders[k].name))
    /\ \A k \in 1..Len(case_folders) :
         case_folders[k].name \notin { <<"a","e","a","r","e","p","-","1","2","a">>,
                                       <<"x","a","e","a","r","e","p","-","1","2">> }

C10_Witness ==
  /\ Scanned
  /\ args.specific_case = << >>
  /\ \E k \in 1..Len(case_folders) :
       /\ case_folders[k].name = <<"A","e","a","R","e","p","-","0","0","7">>
       /\ case_folders[k].case_number = <<"0","0","7">>

(***************************************************************************)
(* C11: find_case_folders returns exactly the items of the root listing     *)
(* that are folders with a case name (and, with --case, the digit string of *)
(* the filter), in ascending order of the numeric case number; nothing else *)
(* is returned, and folders_found is the length of the list.                *)
(***************************************************************************)
\* the items of the root listing that are to be returned
CaseItems ==
  { it \in { children[ROOT][i] : i \in 1..Len(children[ROOT]) } :
      IsCaseName(it.name) /\ Unfiltered(it) }

C11_FindReturnsSortedCaseFolders ==
  Scanned =>
    /\ { [id |-> case_folders[k].id, name |-> case_folders[k].name] :
           k \in 1..Len(case_folders) }
         = { [id |-> it.id, name |-> it.name] : it \in CaseItems }
    /\ Len(case_folders) = Cardinality(CaseItems)
    /\ \A k \in 1..Len(case_folders) : \A l \in k..Len(case_folders) :
         ToInt(SubSeq(case_folders[k].name, 8, Len(case_folders[k].name)))
           <= ToInt(SubSeq(case_folders[l].name, 8, Len(case_folders[l].name)))
    /\ stats.folders_found = Len(case_folders)

\* the listing has aearep-12 before AEAREP-7 and a third item that is no
\* case folder; AEAREP-7 is returned first
C11_Witness ==
  /\ Scanned
  /\ Len(children[ROOT]) = 3
  /\ children[ROOT][1].id = 11
  /\ children[ROOT][2].id = 12
  /\ Len(case_folders) = 2
  /\ case_folders[1].id = 12
  /\ case_folders[2].id = 11

(***************************************************************************)
(* check_jira_purge_status on its own, for every helper outcome: a live run *)
(* stands at the call for one case folder.                                  *)
(***************************************************************************)
\* how the helper can end: exit codes, the 30 s timeout, an error raised by
\* subprocess.run
HelperOutcomes == Verdicts \cup {"exit2", "exit255"}

\* an invocation of that workflow and mode that stands at that step, no
\* remote call failed so far
Standing(wf, tm, step) ==
  /\ workflow = wf
  /\ test_mode = tm
  /\ pc = step
  /\ exit_code = -1
  /\ events = << >>
  /\ faults = 0
  /\ returned = PyNone
  /\ dry_result = [ended |-> FALSE]

\* the locals of process_case_folder and delete_data_files are not yet set
NoCaseLocals ==
  /\ data_files = << >>
  /\ document_files = << >>
  /\ del_idx = 0
  /\ deleted_count = 0
  /\ deleted_bytes = 0

\* the locals of BoxRecovery.run() are not yet set
NoRecoveryLocals ==
  /\ box_folder_id = PyNone
  /\ box_folder_name = PyNone
  /\ trashed_items = << >>
  /\ filtered_items = << >>
  /\ target_folder_id = NoId

\* a live run of the cleanup about to ask whether one of two case folders
\* is ready
InitReady ==
  /\ Standing("cleanup", FALSE, "check")
  /\ args \in [ specific_case : { << >> }, auto_confirm : { TRUE }, skip_jira : BOOLEAN ]
  /\ env \in [ creds_ok : { TRUE }, helper_exists : BOOLEAN,
               verdict : [CaseNumbers -> HelperOutcomes] ]
  /\ children = [ f \in FolderIds |->
                    IF f = ROOT THEN SubSeq(RootCatalog, 1, 2) ELSE InitialChildren(f) ]
  /\ trash = << >>
  /\ stats = [ CleanupStats0 EXCEPT !.folders_found = 2 ]
  /\ case_folders = SortByCase(MatchingFolders(children[ROOT], << >>))
  /\ idx \in 1..2
  /\ completed_folder_id = NoId
  /\ NoCaseLocals
  /\ NoRecoveryLocals

check_jira_purge_status ==
  /\ pc = "check"
  /\ returned' = CheckJiraPurgeStatus(case_folders[idx].case_number)
  /\ pc' = "checked"
  /\ UNCHANGED << inputs, storage, test_mode, exit_code, stats, idx, cleanup_locals,
                  events, faults, dry_result, recovery_locals >>

SpecReady == InitReady /\ [][check_jira_purge_status]_vars

(***************************************************************************)
(* C12: the readiness adapter returns ready exactly when the helper exits   *)
(* with code 0; a non-zero exit code, the 30 s timeout or an error raised   *)
(* while running the helper give not ready; with --skip-jira-check it       *)
(* returns ready for every case and does not run the helper.                *)
(***************************************************************************)
Checked == pc = "checked"

\* what the helper does for the case that was asked about
HelperOutcome == env.verdict[case_folders[idx].case_number]

C12_ReadyExactlyOnExitZero ==
  Checked =>
    /\ args.skip_jira =>
         returned.ended = "return" /\ returned.is_ready /\ ~returned.helper_called
    /\ (~args.skip_jira /\ env.helper_exists) =>
         /\ returned.ended = "return"
         /\ returned.helper_called
         /\ HelperOutcome = "exit0" => returned.is_ready
         /\ HelperOutcome \in {"exit1", "exit2", "exit255", "timeout", "error"}
              => ~returned.is_ready
    \* process_case_folder acts on the same verdict
    /\ returned.ended = "return" =>
         (returned.is_ready <=> IsReady(case_folders[idx].case_number))

\* the helper ran out of time and the case is reported not ready
C12_Witness ==
  /\ Checked
  /\ ~args.skip_jira
  /\ env.helper_exists
  /\ HelperOutcome = "timeout"
  /\ ~returned.is_ready

(***************************************************************************)
(* C13: in a live run, while the data files of a moved case are deleted, a  *)
(* failed delete adds one to errors and does not stop the remaining         *)
(* deletes: a delete is attempted for every data file of the case,          *)
(* files_deleted grows by the number of successful deletes, bytes_deleted   *)
(* by the sum of their sizes, and folders_moved still counts the case.      *)
(* Refuted (C13_Original): a delete that fails with anything but a          *)
(* BoxAPIException leaves delete_data_files, so the remaining files are not *)
(* attempted and the deletes that succeeded before it are not counted.      *)
(***************************************************************************)
\* the size the file of that id has
SizeOfFile(file_id) ==
  LET files == UNION { { InitialChildren(f)[i] : i \in 1..Len(InitialChildren(f)) } :
                         f \in FolderIds }
  IN  (CHOOSE it \in files : it.id = file_id).size

RECURSIVE SumOfSizes(_)
SumOfSizes(file_ids) ==
  IF file_ids = {} THEN 0
  ELSE LET f == CHOOSE x \in file_ids : TRUE
       IN  SizeOfFile(f) + SumOfSizes(file_ids \ {f})

\* the delete calls that succeeded
DeletesDone == { j \in DeleteCalls : events[j].result = "ok" }

\* a live cleanup run has gone through all its cases
LiveCleanupDone == workflow = "cleanup" /\ ~test_mode /\ pc \in {"summary", "summarized"}

\* a step of a live run in which the delete of a file fails
FailedDeleteStep ==
  /\ ~test_mode
  /\ pc = "delete"
  /\ Len(events') = Len(events) + 1
  /\ events'[Len(events')].op = "delete"
  /\ events'[Len(events')].result # "ok"

C13_Original ==
  /\ [][FailedDeleteStep =>
          /\ stats'.errors = stats.errors + 1
          /\ idx' = idx
          /\ IF del_idx < Len(data_files)
             THEN pc' = "delete" /\ del_idx' = del_idx + 1
             ELSE pc' = "delete_return"]_vars
  /\ [](LiveCleanupDone =>
          /\ stats.files_deleted = Cardinality(DeletesDone)
          /\ stats.bytes_deleted = SumOfSizes({ events[j].target : j \in DeletesDone })
          /\ stats.folders_moved = Cardinality(MovedCases))

(***************************************************************************)
(* C14: in a live cleanup run every failed folder move, a name collision in *)
(* the archive included, adds one to errors, and the run goes on with the   *)
(* next case.  Refuted (C14_Original): a move refused because the name is   *)
(* taken in the archive is logged as a warning and not counted.             *)
(***************************************************************************)
C14_Original ==
  [][(~test_mode /\ MoveFailedStep) =>
       /\ stats'.errors = stats.errors + 1
       /\ pc' \in {"process", "summary"}
       /\ idx' = idx + 1]_vars

(***************************************************************************)
(* C15: in a live recovery run a restore refused because the name already   *)
(* exists in the target folder is a warning, not an error: it adds nothing  *)
(* to errors and nothing to items_restored, and the remaining filtered      *)
(* items are still restored; any other failed restore adds one to errors.   *)
(***************************************************************************)
\* a step of a live run in which a restore call fails
FailedRestoreStep ==
  /\ ~test_mode
  /\ pc = "restore"
  /\ Len(events') = Len(events) + 1
  /\ events'[Len(events')].op = "restore"
  /\ events'[Len(events')].result # "ok"

\* the loop over filtered_items goes on with the next item, if there is one
RestoreLoopGoesOn ==
  /\ idx' = idx + 1
  /\ pc' = IF idx < Len(filtered_items) THEN "restore" ELSE "summary"

C15_NameInUseIsNoError ==
  [][FailedRestoreStep =>
       /\ stats'.items_restored = stats.items_restored
       /\ stats'.items_found = stats.items_found
       /\ stats'.errors = IF events'[Len(events')].result = "in_use"
                          THEN stats.errors ELSE stats.errors + 1
       /\ RestoreLoopGoesOn]_vars

\* a restore was refused because the name is taken, nothing was counted, and
\* the next item was restored
C15_Witness ==
  /\ workflow = "recovery"
  /\ Len(events) = 2
  /\ events[1].op = "restore" /\ events[1].result = "in_use"
  /\ events[2].op = "restore" /\ events[2].result = "ok"
  /\ stats.errors = 0
  /\ stats.items_restored = 1

(***************************************************************************)
(* filter_trashed_items on wide inputs: the list holds items whose deletion *)
(* time, deleting user and relation to the folder are drawn independently,  *)
(* and the folder id and the folder name may each be None.                  *)
(***************************************************************************)
MaxFilterItems == 2

\* item['trashed_at']: two days ago, more than eight days ago, just before
\* the cutoff on a clock eight hours ahead of UTC, just after the cutoff on a
\* clock eight hours behind UTC, without an offset, absent, not an ISO date
FilterTimes ==
  { Aware(RunStart - 48, 0), Aware(RunStart - 200, 0), Aware(RunStart - 164, 8),
    Aware(RunStart - 172, -8), Naive(RunStart - 30), Naive(RunStart - 200),
    NoTime, BadTime }

\* item['trashed_by']
FilterUsers ==
  { ByNobody, ByDict(AeadataLogin), ByDict(OtherLogin), ByObject(AeadataLogin) }

\* how an item relates to the folder: the folder itself, a direct child, below
\* it with a path of dicts, below it with a path of SDK objects, related by
\* its name only, unrelated
FilterRelations ==
  { [ id |-> CaseFolderId, name |-> << "o", "l", "d" >>, type |-> "folder",
      path |-> NoPath, parent |-> CompletedId ],
    [ id |-> 701, name |-> << "a", ".", "c", "s", "v" >>, type |-> "file",
      path |-> NoPath, parent |-> CaseFolderId ],
    [ id |-> 702, name |-> << "b", ".", "d", "t", "a" >>, type |-> "file",
      path |-> PathOf(<< PathEntry(TRUE, CompletedId), PathEntry(TRUE, CaseFolderId) >>),
      parent |-> NoId ],
    [ id |-> 703, name |-> << "c", ".", "d", "t", "a" >>, type |-> "file",
      path |-> PathOf(<< PathEntry(FALSE, CompletedId), PathEntry(FALSE, CaseFolderId) >>),
      parent |-> NoId ],
    [ id |-> 704, name |-> << "7", "7", "1", "2", ".", "t", "x", "t" >>, type |-> "file",
      path |-> NoPath, parent |-> NoId ],
    [ id |-> 705, name |-> << "z", ".", "c", "s", "v" >>, type |-> "file",
      path |-> PathOf(<< PathEntry(TRUE, CompletedId) >>), parent |-> CompletedId ] }

\* the item dictionaries get_trashed_items can hand to the filter
FilterItems ==
  { ItemDict(Trashed(r.id, r.name, r.type, 1, t, u, r.path, r.parent)) :
      r \in FilterRelations, t \in FilterTimes, u \in FilterUsers }

\* the items deleted two days ago by the automation account
PlainItems ==
  { it \in FilterItems : /\ it.trashed_at = Aware(RunStart - 48, 0)
                         /\ it.trashed_by = ByDict(AeadataLogin) }

\* a recovery about to filter a list of trashed items: one item of any kind
\* among plain ones
InitFilter ==
  /\ Standing("recovery", TRUE, "filter")
  /\ args = [ case_number |-> << "8", "0", "4", "0" >>, days_back |-> 7,
              list_only |-> FALSE, auto_confirm |-> FALSE ]
  /\ env = [ creds_ok |-> TRUE, jira_ok |-> TRUE, trash_api |-> TRUE,
             issue_found |-> TRUE, id_field |-> TRUE, name_field |-> TRUE,
             id_raw |-> PyNone, name_raw |-> PyNone ]
  /\ children = [ f \in FolderIds |-> << >> ]
  /\ trash = << >>
  /\ stats = RecoveryStats0
  /\ case_folders = << >>
  /\ idx = 0
  /\ completed_folder_id = NoId
  /\ NoCaseLocals
  /\ box_folder_id \in { PyNone, PyStr(IntToStr(CaseFolderId)) }
  /\ box_folder_name \in { PyNone, PyStr(CaseFolderName) }
  /\ \E n \in 0..MaxFilterItems, at \in 1..MaxFilterItems :
       \E any \in FilterItems, plain \in [1..n -> PlainItems] :
         trashed_items = [ i \in 1..n |-> IF i = at THEN any ELSE plain[i] ]
  /\ filtered_items = << >>
  /\ target_folder_id = NoId

SpecFilter == InitFilter /\ [][filter_trashed_items]_vars

\* filter_trashed_items has returned
Filtered == workflow = "recovery" /\ pc = "listed"

(***************************************************************************)
(* C16: every item in the result of filter_trashed_items has a deletion     *)
(* time at or after the cutoff (run start minus N days); an item deleted    *)
(* before the cutoff, or whose deletion time cannot be established as at or *)
(* after the cutoff, is never in the result, whatever its deleting user and *)
(* its relation to the folder.                                              *)
(***************************************************************************)
\* the deletion time is known and is, as an instant, at or after the cutoff
DeletedAtOrAfterCutoff(trashed_at) ==
  /\ trashed_at.kind \in {"aware", "naive"}
  /\ trashed_at.wall - trashed_at.off >= CutoffDate

C16_Original ==
  Filtered =>
    \A i \in 1..Len(filtered_items) :
      DeletedAtOrAfterCutoff(filtered_items[i].trashed_at)

(***************************************************************************)
(* C17: every item in the result of filter_trashed_items was deleted by a   *)
(* user whose login contains the automation account name ('aeadata', as a   *)
(* case-insensitive substring); an item deleted by a different user, or     *)
(* with no recorded deleting user, is never in the result, whatever its     *)
(* deletion date and its relation to the folder.                            *)
(***************************************************************************)
\* the deleting user is recorded and the login contains the account name
DeletedByAccount(trashed_by) ==
  /\ trashed_by.kind # "none"
  /\ Contains(Lower(trashed_by.login), << "a", "e", "a", "d", "a", "t", "a" >>)

C17_Original ==
  Filtered =>
    \A i \in 1..Len(filtered_items) :
      DeletedByAccount(filtered_items[i].trashed_by)

(***************************************************************************)
(* C18: an item that passes the date and user checks is in the result of    *)
(* filter_trashed_items if and only if either no folder id and no folder    *)
(* name were supplied, or at least one rule holds: its id equals the folder *)
(* id, its parent id equals the folder id, the folder id occurs in the      *)
(* entries of its ancestor path, or its name fuzzy-matches the folder name; *)
(* the result keeps the input order of the items.                           *)
(***************************************************************************)
\* the item passes the date check and the user check of the filter
PassesDateAndUser(item) ==
  /\ ~DeletedBeforeCutoff(item.trashed_at)
  /\ ~NotDeletedBy(item.trashed_by, UserFilter)

\* the folder id occurs in the entries of the item's ancestor path
InAncestorPath(item, folder_id) ==
  \E k \in 1..Len(item.path_collection.entries) :
    IntToStr(item.path_collection.entries[k].id) = folder_id

\* no criteria were supplied, or one of the four rules holds
Associated(item, folder_id, folder_name) ==
  \/ folder_id = PyNone /\ folder_name = PyNone
  \/ /\ folder_id # PyNone
     /\ \/ item.id = folder_id.s
        \/ item.parent_id = folder_id
        \/ InAncestorPath(item, folder_id.s)
  \/ folder_name # PyNone /\ MatchesFolderName(item.name, folder_name.s)

C18_Original ==
  Filtered =>
    filtered_items =
      SelectSeq(trashed_items, LAMBDA item :
        /\ PassesDateAndUser(item)
        /\ Associated(item, box_folder_id, box_folder_name))

(***************************************************************************)
(* _matches_folder_name on its own: the item name and the expected name are *)
(* digit strings with or without the prefix 'aearep-'.                      *)
(***************************************************************************)
MaxDigits == 2

\* the digit strings of one to MaxDigits digits
DigitStrings ==
  UNION { [1..n -> {"1", "7", "9"}] : n \in 1..MaxDigits }

Prefixed(d) == AearepDash \o d

\* the names handed to the matcher
MatchNames == DigitStrings \cup { Prefixed(d) : d \in DigitStrings }

\* Python's True and False
PyBool(b) == [t |-> "bool", b |-> b]

\* filter_trashed_items is about to match the name of an item against the
\* folder name
InitMatch ==
  /\ Standing("recovery", TRUE, "match")
  /\ args = [ case_number |-> << "8", "0", "4", "0" >>, days_back |-> 7,
              list_only |-> FALSE, auto_confirm |-> FALSE ]
  /\ env = [ creds_ok |-> TRUE, jira_ok |-> TRUE, trash_api |-> TRUE,
             issue_found |-> TRUE, id_field |-> TRUE, name_field |-> TRUE,
             id_raw |-> PyNone, name_raw |-> PyNone ]
  /\ children = [ f \in FolderIds |-> << >> ]
  /\ trash = << >>
  /\ stats = RecoveryStats0
  /\ case_folders = << >>
  /\ idx = 0
  /\ completed_folder_id = NoId
  /\ NoCaseLocals
  /\ box_folder_id = PyNone
  /\ \E expected_name \in MatchNames : box_folder_name = PyStr(expected_name)
  /\ \E item_name \in MatchNames :
       trashed_items = << ItemDict(Trashed(704, item_name, "file", 1, Aware(RunStart - 48, 0),
                                           ByDict(AeadataLogin), NoPath, NoId)) >>
  /\ filtered_items = << >>
  /\ target_folder_id = NoId

\* self._matches_folder_name(item['name'], folder_name)
matches_folder_name ==
  /\ pc = "match"
  /\ returned' = PyBool(MatchesFolderName(trashed_items[1].name, box_folder_name.s))
  /\ pc' = "matched"
  /\ UNCHANGED << inputs, storage, test_mode, exit_code, stats, idx, cleanup_locals, events,
                  faults, dry_result, recovery_locals >>

SpecMatch == InitMatch /\ [][matches_folder_name]_vars

(***************************************************************************)
(* C19: for every digit string d the fuzzy folder-name matcher accepts d    *)
(* against 'aearep-' + d in both argument orders, and it rejects            *)
(* 'aearep-' + d1 against 'aearep-' + d2 whenever neither digit string      *)
(* contains the other.                                                      *)
(***************************************************************************)
\* the matcher has returned
Matched == pc = "matched"

C19_MatcherToleratesThePrefix ==
  Matched =>
    LET item_name == trashed_items[1].name
        expected_name == box_folder_name.s
    IN  /\ \A d \in DigitStrings :
             \/ item_name = d /\ expected_name = Prefixed(d)
             \/ item_name = Prefixed(d) /\ expected_name = d
             => returned = PyBool(TRUE)
        /\ \A d1, d2 \in DigitStrings :
             /\ item_name = Prefixed(d1)
             /\ expected_name = Prefixed(d2)
             /\ ~Contains(d1, d2)
             /\ ~Contains(d2, d1)
             => returned = PyBool(FALSE)

\* the bare number was matched against the prefixed name
C19_Witness ==
  /\ Matched
  /\ trashed_items[1].name = << "7", "1" >>
  /\ box_folder_name.s = Prefixed(<< "7", "1" >>)
  /\ returned = PyBool(TRUE)

(***************************************************************************)
(* _clean_jira_numeric_field on its own: the raw value of the custom field  *)
(* is None, a float, an int, or any short text over digits, the dot and a   *)
(* letter.                                                                  *)
(***************************************************************************)
MaxCleanLen == 4

CleanStrings ==
  UNION { [1..n -> {"1", "2", ".", "0", "a"}] : n \in 0..MaxCleanLen }

CleanInputs ==
  {PyNone}
    \cup { PyFloat(whole, tenths) : whole \in {0, 7, CaseFolderId, 1234}, tenths \in {0, 5} }
    \cup { PyInt(CaseFolderId) }
    \cup { PyStr(s) : s \in CleanStrings }

\* get_box_info_from_jira is about to clean the raw value of the folder id
InitClean ==
  /\ Standing("recovery", TRUE, "clean")
  /\ args = [ case_number |-> << "8", "0", "4", "0" >>, days_back |-> 7,
              list_only |-> FALSE, auto_confirm |-> FALSE ]
  /\ \E value \in CleanInputs :
       env = [ creds_ok |-> TRUE, jira_ok |-> TRUE, trash_api |-> TRUE,
               issue_found |-> TRUE, id_field |-> TRUE, name_field |-> FALSE,
               id_raw |-> value, name_raw |-> PyNone ]
  /\ children = [ f \in FolderIds |-> << >> ]
  /\ trash = << >>
  /\ stats = RecoveryStats0
  /\ case_folders = << >>
  /\ idx = 0
  /\ completed_folder_id = NoId
  /\ NoCaseLocals
  /\ NoRecoveryLocals

\* self._clean_jira_numeric_field(box_folder_id_raw)
clean_jira_numeric_field ==
  /\ pc = "clean"
  /\ returned' = CleanJiraNumericField(env.id_raw)
  /\ pc' = "cleaned"
  /\ UNCHANGED << inputs, storage, test_mode, exit_code, stats, idx, cleanup_locals, events,
                  faults, dry_result, recovery_locals >>

SpecClean == InitClean /\ [][clean_jira_numeric_field]_vars

(***************************************************************************)
(* C20: numeric-field cleaning maps a float with zero fractional part       *)
(* (1234.0) and a text ending in '.0' ('1234.0') to the text without the    *)
(* suffix ('1234'), maps None to None, and returns every other text         *)
(* unchanged.                                                               *)
(***************************************************************************)
\* the cleaning has returned
Cleaned == pc = "cleaned"

DotZero == << ".", "0" >>

C20_CleaningDropsDotZero ==
  Cleaned =>
    LET value == env.id_raw
    IN  /\ value = PyNone => returned = PyNone
        /\ (value.t = "float" /\ value.tenths = 0) =>
             /\ returned.t = "str"
             /\ returned.s \o DotZero = PyToStr(value)
        /\ (value.t = "str" /\ EndsWith(value.s, DotZero)) =>
             /\ returned.t = "str"
             /\ returned.s \o DotZero = value.s
        /\ (value.t = "str" /\ ~EndsWith(value.s, DotZero)) => returned = value

\* the text '12.0' was cleaned to '12'
C20_Witness ==
  /\ Cleaned
  /\ env.id_raw = PyStr(<< "1", "2", ".", "0" >>)
  /\ returned = PyStr(<< "1", "2" >>)

(***************************************************************************)
(* C21: in a recovery run, when the Box folder id cannot be resolved (issue *)
(* missing, folder-id field undefined, or its value empty) the run exits    *)
(* non-zero before any trash listing or restore call; when the folder id    *)
(* resolves but the folder-name field is undefined or empty, the run goes   *)
(* on with the folder id and no folder name.                                *)
(***************************************************************************)
\* the issue, the field or its value is missing
FolderIdUnresolved ==
  \/ ~env.issue_found
  \/ ~env.id_field
  \/ env.id_raw = PyNone
  \/ env.id_raw = PyStr(<< >>)

\* the folder-name field or its value is missing
FolderNameMissing ==
  \/ ~env.name_field
  \/ env.name_raw = PyNone
  \/ env.name_raw = PyStr(<< >>)

\* the recovery is past the Jira lookup
PastJiraLookup ==
  pc \in {"trash", "filter", "listed", "target", "target_root", "restore", "summary",
          "summarized", "returned"}

C21_NoFolderIdIsFatal ==
  /\ [][(workflow = "recovery" /\ pc = "jira" /\ FolderIdUnresolved) =>
          /\ pc' = "exited"
          /\ exit_code' = 1
          /\ trashed_items' = << >>
          /\ events' = << >>
          /\ UNCHANGED storage]_vars
  /\ [][(workflow = "recovery" /\ pc = "jira" /\ ~FolderIdUnresolved
           /\ Truthy(CleanJiraNumericField(env.id_raw)) /\ FolderNameMissing) =>
          /\ pc' = "trash"
          /\ box_folder_id' = CleanJiraNumericField(env.id_raw)
          /\ box_folder_name' = PyNone]_vars
  /\ []((workflow = "recovery" /\ FolderIdUnresolved) =>
          /\ ~PastJiraLookup
          /\ trashed_items = << >>
          /\ events = << >>)

\* the field is defined but empty on the issue, and the run has exited with 1
C21_Witness ==
  /\ workflow = "recovery"
  /\ env.creds_ok /\ env.jira_ok /\ env.issue_found /\ env.id_field
  /\ env.id_raw = PyNone
  /\ pc = "exited"
  /\ exit_code = 1
  /\ ~test_mode

(***************************************************************************)
(* C22: in a live recovery run every restore call targets the folder inside *)
(* '1Completed' whose name fuzzy-matches the folder name when such a folder *)
(* exists, and otherwise (no matching subfolder, or no folder name) the     *)
(* '1Completed' folder itself; without a target folder id no restore call   *)
(* is issued.                                                               *)
(***************************************************************************)
\* a step of a live recovery in which a restore call is issued
RestoreCallStep ==
  /\ workflow = "recovery"
  /\ ~test_mode
  /\ pc = "restore"
  /\ Len(events') = Len(events) + 1
  /\ events'[Len(events')].op = "restore"
  /\ events'[Len(events')].mode = "call"

\* no restore of this run has changed the storage yet
NothingRestoredYet ==
  \A i \in 1..Len(events) : ~(events[i].op = "restore" /\ events[i].result = "ok")

\* the folders inside '1Completed' whose name fuzzy-matches the folder name
MatchingArchived ==
  IF box_folder_name = PyNone THEN {}
  ELSE { children[CompletedId][i].id : i \in
           { j \in 1..Len(children[CompletedId]) :
               /\ children[CompletedId][j].type = "folder"
               /\ MatchesFolderName(children[CompletedId][j].name, box_folder_name.s) } }

C22_Original ==
  /\ [][RestoreCallStep =>
          /\ events'[Len(events')].case = target_folder_id
          /\ target_folder_id # NoId
          /\ target_folder_id' = target_folder_id
          /\ NothingRestoredYet =>
               IF MatchingArchived # {}
               THEN target_folder_id \in MatchingArchived
               ELSE target_folder_id = CompletedId]_vars

(***************************************************************************)
(* get_or_create_completed_folder called several times in a row, in a dry   *)
(* run or a live run, on a root that may or may not hold '1Completed'.      *)
(***************************************************************************)
MaxCalls == 3

\* what the root may hold: a case folder, a folder and a file whose names
\* only start with '1Completed', the archive folder
ResolverCatalog ==
  << Item(11, << "a", "e", "a", "r", "e", "p", "-", "1", "2" >>, "folder", 0),
     Item(161, CompletedName \o << "-", "o", "l", "d" >>, "folder", 0),
     Item(17, CompletedName \o << ".", "t", "x", "t" >>, "file", 1),
     Item(CompletedId, CompletedName, "folder", 0) >>

InitResolver ==
  /\ \E tm \in BOOLEAN : Standing("cleanup", tm, "resolve")
  /\ args = [ specific_case |-> << >>, auto_confirm |-> TRUE, skip_jira |-> FALSE ]
  /\ env = [ creds_ok |-> TRUE, helper_exists |-> TRUE,
             verdict |-> [ c \in CaseNumbers |-> "exit0" ] ]
  /\ \E listing \in SubListings(ResolverCatalog, Len(ResolverCatalog)) :
       children = [ f \in FolderIds |-> IF f = ROOT THEN listing ELSE << >> ]
  /\ trash = << >>
  /\ stats = CleanupStats0
  /\ case_folders = << >>
  /\ idx = 0
  /\ completed_folder_id = NoId
  /\ NoCaseLocals
  /\ NoRecoveryLocals

\* one call of get_or_create_completed_folder; idx counts the calls
completed_folder_call ==
  /\ pc = "resolve"
  /\ idx < MaxCalls
  /\ \E outcome \in CompletedOutcomes :
       LET call == CompletedCall(outcome)
       IN  /\ children' = call.children
           /\ events' = call.events
           /\ faults' = IF call.failed THEN faults + 1 ELSE faults
           /\ completed_folder_id' = call.id
           /\ returned' = IF call.id = NoId THEN PyNone ELSE PyStr(IntToStr(call.id))
           /\ IF call.exits
              THEN Terminate("exited", 1)
              ELSE pc' = pc /\ exit_code' = exit_code
  /\ idx' = idx + 1
  /\ UNCHANGED << inputs, trash, test_mode, stats, case_folders, case_locals, dry_result,
                  recovery_locals >>

SpecResolver == InitResolver /\ [][completed_folder_call]_vars

(***************************************************************************)
(* C23: get_or_create_completed_folder returns the id of the folder named   *)
(* exactly '1Completed' directly under the root if there is one; if there   *)
(* is none it creates one and returns its id in a live run, and returns no  *)
(* id without creating anything in a dry run; over any sequence of live     *)
(* calls at most one '1Completed' folder is created and every call after    *)
(* the creation returns that same id.                                       *)
(***************************************************************************)
\* the ids of the folders named exactly '1Completed' directly under the root
CompletedFolders(ch) ==
  { ch[ROOT][i].id : i \in { j \in 1..Len(ch[ROOT]) :
      ch[ROOT][j].type = "folder" /\ ch[ROOT][j].name = << "1", "C", "o", "m", "p", "l", "e", "t", "e", "d" >> } }

\* the create calls that were carried out
CreateCalls ==
  { i \in 1..Len(events) : events[i].op = "create" /\ events[i].mode = "call"
                             /\ events[i].result = "ok" }

\* a call of the resolver that the storage answered
AnsweredCall == pc = "resolve" /\ idx' = idx + 1 /\ faults' = faults

C23_ResolverIsIdempotent ==
  /\ [][(AnsweredCall /\ CompletedFolders(children) # {}) =>
          /\ returned'.t = "str"
          /\ \E id \in CompletedFolders(children) : returned'.s = IntToStr(id)
          /\ children' = children
          /\ events' = events]_vars
  /\ [][(AnsweredCall /\ CompletedFolders(children) = {} /\ ~test_mode) =>
          /\ Cardinality(CompletedFolders(children')) = 1
          /\ Len(children'[ROOT]) = Len(children[ROOT]) + 1
          /\ \E id \in CompletedFolders(children') : returned' = PyStr(IntToStr(id))
          /\ Len(events') = Len(events) + 1]_vars
  /\ [][(AnsweredCall /\ CompletedFolders(children) = {} /\ test_mode) =>
          /\ returned' = PyNone
          /\ children' = children
          /\ \A i \in 1..Len(events') : events'[i].mode # "call"]_vars
  /\ [][(AnsweredCall /\ returned # PyNone) => returned' = returned]_vars
  /\ [](Cardinality(CreateCalls) <= 1 /\ Cardinality(CompletedFolders(children)) <= 1)

\* a live run created the folder and two later calls returned its id
C23_Witness ==
  /\ ~test_mode
  /\ pc = "resolve"
  /\ idx = MaxCalls
  /\ CreateCalls = {1}
  /\ Len(events) = 1
  /\ returned = PyStr(IntToStr(CompletedId))
  /\ Len(children[ROOT]) = 4

(***************************************************************************)
(* C24: every run of either workflow ends in one of two ways only: the run  *)
(* summary is printed, or the process exits early with a non-zero code on a *)
(* fatal precondition failure; no run ends with exit code 0 without having  *)
(* printed the summary.                                                     *)
(***************************************************************************)
C24_Original ==
  (Ended /\ exit_code = 0) => pc = "summarized"

(***************************************************************************)
(* C25: in a live cleanup run without the auto-confirm flag that found more *)
(* than one case folder, no mutating call (creation of '1Completed', folder *)
(* move, file delete) is issued unless the user answered 'y' or 'yes' to    *)
(* the prompt; the prompt is skipped exactly when auto-confirm is set, the  *)
(* run is a dry run, or at most one case folder is targeted.                *)
(***************************************************************************)
\* the calls that change the storage
MutatingCalls ==
  { i \in 1..Len(events) : events[i].mode = "call" }

\* the user was asked and answered y or yes, in any case of letters
AnsweredYes ==
  /\ returned # PyNone
  /\ Lower(returned.s) \in { << "y" >>, << "y", "e", "s" >> }

\* a step of run() from the end of find_case_folders to the prompt's answer
ConfirmStep == workflow = "cleanup" /\ pc = "confirm" /\ pc' # pc

C25_NoMutationWithoutYes ==
  /\ []((/\ workflow = "cleanup"
         /\ ~test_mode
         /\ ~args.auto_confirm
         /\ Len(case_folders) > 1
         /\ MutatingCalls # {}) => AnsweredYes)
  /\ [][ConfirmStep =>
          ((returned' = returned)
             <=> (args.auto_confirm \/ test_mode \/ Len(case_folders) <= 1))]_vars
  /\ [][(ConfirmStep /\ returned' # returned) =>
          /\ returned'.s \in Responses
          /\ events' = events
          /\ UNCHANGED storage]_vars

\* two case folders, the user typed YES, and a folder was then moved
C25_Witness ==
  /\ workflow = "cleanup"
  /\ ~test_mode
  /\ ~args.auto_confirm
  /\ Len(case_folders) = 2
  /\ returned = PyStr(<< "Y", "E", "S" >>)
  /\ \E i \in MutatingCalls : events[i].op = "move" /\ events[i].result = "ok"

(***************************************************************************)
(* C30: in a live recovery run without the auto-confirm flag, no restore    *)
(* call and no creation of '1Completed' is issued unless the user answered  *)
(* 'y' or 'yes' to the confirmation prompt; in list-only mode no restore    *)
(* call and no creation of '1Completed' is issued at all.                   *)
(***************************************************************************)
\* the restore calls and the create calls of the run
RestoreOrCreateCalls ==
  { i \in 1..Len(events) : events[i].mode = "call" /\ events[i].op \in {"restore", "create"} }

\* the answer typed at the prompt of the recovery
RestoreAnswer == IF returned = PyNone THEN << "-" >> ELSE returned.s

C30_NoRestoreWithoutYes ==
  /\ (workflow = "recovery" /\ ~test_mode /\ ~args.auto_confirm /\ RestoreOrCreateCalls # {})
       => Lower(RestoreAnswer) \in { << "y" >>, << "y", "e", "s" >> }
  /\ (workflow = "recovery" /\ args.list_only) => RestoreOrCreateCalls = {}

\* the user typed y and an item was then restored
C30_Witness ==
  /\ workflow = "recovery"
  /\ ~test_mode
  /\ ~args.auto_confirm
  /\ returned = PyStr(<< "y" >>)
  /\ \E i \in RestoreOrCreateCalls : events[i].op = "restore" /\ events[i].result = "ok"

(***************************************************************************)
(* C26: during the recursive classification walk a failure to list one      *)
(* folder skips only the subtree of that folder: every file in the folders  *)
(* outside the failed subtree, later siblings of the failed folder          *)
(* included, is still classified and returned, and the walk returns         *)
(* normally instead of raising.                                             *)
(***************************************************************************)
RECURSIVE ListedFolders(_, _, _)
\* the folders the walk lists successfully when the folders in failed cannot
\* be listed: nothing below a failed folder is visited
ListedFolders(ch, folder_id, failed) ==
  IF folder_id \in failed THEN {}
  ELSE {folder_id} \cup
       UNION { ListedFolders(ch, ch[folder_id][i].id, failed) :
                 i \in { j \in 1..Len(ch[folder_id]) : ch[folder_id][j].type = "folder" } }

\* the ids of the files directly in one of these folders
FilesDirectlyIn(ch, folders) ==
  UNION { { ch[f][i].id : i \in { j \in 1..Len(ch[f]) : ch[f][j].type = "file" } } :
            f \in folders }

\* the folders of the tree of a case folder
TreeOf(ch, folder_id) == ListedFolders(ch, folder_id, {})

\* a step in which the files of the current case folder are classified
ClassifyStep == workflow = "cleanup" /\ pc = "classify" /\ pc' # pc

InCaseLoop ==
  workflow = "cleanup" /\ pc \in {"process", "classify", "move", "delete", "delete_return"}

\* the run found case folders and was not stopped at the prompt
PassedConfirmation ==
  workflow = "cleanup" /\ case_folders # << >> /\ pc \notin {"confirm", "returned"}

\* a step in which a call raises an exception that is not a BoxAPIException
UnexpectedExceptionStep ==
  /\ InCaseLoop
  /\ Len(events') = Len(events) + 1
  /\ events'[Len(events')].result = "exception"

\* all case folders were processed and the summary is printed
AllCasesProcessed ==
  /\ workflow = "cleanup"
  /\ pc = "summarized"
  /\ stats.folders_checked = Len(case_folders)

\* the loop takes the case folders one by one, in the order of the sorted
\* list, and nothing that happens in one case ends it
C27_LoopGoesOn ==
  /\ [](InCaseLoop =>
          /\ idx \in 1..Len(case_folders)
          /\ stats.folders_checked = IF pc = "process" THEN idx - 1 ELSE idx
          /\ \A i, j \in 1..Len(case_folders) :
               i < j => ToInt(case_folders[i].case_number) <= ToInt(case_folders[j].case_number))
  /\ [][InCaseLoop =>
          /\ idx' \in {idx, idx + 1}
          /\ case_folders' = case_folders
          /\ IF idx' = idx
             THEN pc' \in {"classify", "move", "delete", "delete_return"}
             ELSE pc' = IF idx < Len(case_folders) THEN "process" ELSE "summary"]_vars
  /\ [][UnexpectedExceptionStep =>
          /\ stats'.errors = stats.errors + 1
          /\ idx' = idx + 1]_vars
  /\ []((workflow = "cleanup" /\ pc = "summary") =>
          stats.folders_checked = Len(case_folders))

C27_Original ==
  /\ C27_LoopGoesOn
  /\ []((PassedConfirmation /\ Ended) => AllCasesProcessed)

\* the same, for the runs in which '1Completed' could be resolved: a live run
\* in which it cannot ends with exit 1 before the first case
C27_Amended ==
  /\ C27_LoopGoesOn
  /\ []((PassedConfirmation /\ Ended) =>
          \/ AllCasesProcessed
          \/ /\ pc = "exited"
             /\ exit_code = 1
             /\ ~test_mode
             /\ stats.folders_checked = 0
             /\ completed_folder_id = NoId
             /\ \A i \in 1..Len(events) : events[i].op = "create")

\* the move of the first case raised an unexpected exception and the second
\* case was moved all the same
C27_Witness ==
  /\ AllCasesProcessed
  /\ Len(case_folders) = 2
  /\ stats.errors = 1
  /\ \E i, j \in 1..Len(events) :
       /\ i < j
       /\ events[i].op = "move" /\ events[i].result = "exception"
       /\ events[i].case = case_folders[1].id
       /\ events[j].op = "move" /\ events[j].result = "ok"
       /\ events[j].case = case_folders[2].id

(***************************************************************************)
(* C28: at every point of a cleanup run the counters satisfy                *)
(* folders_moved <= folders_ready <= folders_checked <= folders_found, and  *)
(* files_deleted and bytes_deleted are zero as long as folders_moved is     *)
(* zero.                                                                    *)
(***************************************************************************)
C28_CountersAreOrdered ==
  workflow = "cleanup" =>
    /\ stats.folders_moved <= stats.folders_ready
    /\ stats.folders_ready <= stats.folders_checked
    /\ stats.folders_checked <= stats.folders_found
    /\ stats.folders_moved = 0 => (stats.files_deleted = 0 /\ stats.bytes_deleted = 0)

\* two folders found and checked, one of them ready, moved and purged
C28_Witness ==
  /\ workflow = "cleanup"
  /\ stats.folders_found = 2
  /\ stats.folders_checked = 2
  /\ stats.folders_ready = 1
  /\ stats.folders_moved = 1
  /\ stats.files_deleted > 0
  /\ stats.bytes_deleted > 0


(***************************************************************************)
(* C29: the date filter decides by absolute instant: an item whose deletion *)
(* timestamp parses is excluded by date exactly when its deletion instant   *)
(* is earlier than the cutoff instant (UTC run start minus N days), and the *)
(* decision is the same whatever UTC offset the timestamp is written with.  *)
(***************************************************************************)
\* the deletion instant in UTC: the wall clock less the offset it is written with
DeletionInstant(trashed_at) == trashed_at.wall - trashed_at.off

\* the timestamp parses and only the date check can keep the item out
DecidedByDate(item) ==
  /\ item.trashed_at.kind \in {"aware", "naive"}
  /\ ~NotDeletedBy(item.trashed_by, UserFilter)
  /\ ItemMatches(item, box_folder_id, box_folder_name)

\* the item is in the result of filter_trashed_items
InResult(item) == \E k \in 1..Len(filtered_items) : filtered_items[k] = item

C29_Original ==
  Filtered =>
    \A i \in 1..Len(trashed_items) :
      DecidedByDate(trashed_items[i]) =>
        (~InResult(trashed_items[i]) <=>
           DeletionInstant(trashed_items[i].trashed_at) < CutoffDate)

====
